---------------------------- MODULE Spec2Model ----------------------------
(***************************************************************************)
(* Black-Scholes pricing engine (src/unnamed/part_000, BlackScholes), the  *)
(* calculator front end (src/app.js, first part) and the yield-finder      *)
(* front ends (src/app.js, second part; src/unnamed/part_000, second part).*)
(*                                                                         *)
(* Numbers.  The code computes in IEEE doubles.  Here a real number v is   *)
(* the integer round(v * Unit): fixed point with four decimals.  Every     *)
(* arithmetic operator rounds to the nearest representable value, as the   *)
(* floating-point operations do, so equalities of the code that rest on    *)
(* rounding are stated up to a tolerance counted in units of 1/Unit.       *)
(* Math.exp, Math.log and Math.sqrt are computed (series, bisection), not  *)
(* assumed.  Where the last bit of a double decides (the bounds of the     *)
(* chart, SpecRounding), the products are computed in doubles exactly.     *)
(*                                                                         *)
(* Requests.  An asynchronous call is a task in flight; its response is an *)
(* action of its own that may come in any order and may fail (SpecTicker,  *)
(* SpecSelect, SpecQuote, SpecFetch).                                      *)
(***************************************************************************)
EXTENDS Integers, Sequences, FiniteSets, TLC

(***************************************************************************)
(* Fixed-point kernel                                                      *)
(*                                                                         *)
(* The arithmetic operations are functions: a function is applied to the   *)
(* values of its arguments, so an argument is computed once however often  *)
(* the body reads it.                                                      *)
(***************************************************************************)
\* One in fixed point: four decimal digits.
Unit == 100 * 100

Abs(a) == IF a < 0 THEN -a ELSE a

Sgn(a) == IF a < 0 THEN -1 ELSE 1

Max(a, b) == IF a >= b THEN a ELSE b

\* n / d for n >= 0, d > 0, rounded to the nearest integer, a tie to the
\* integer that makes base + n / d even (IEEE round-half-to-even).
RoundTo[base \in Int, n \in Int, d \in Int] ==
    LET qt == n \div d
        rm == n % d
    IN  IF 2 * rm > d \/ (2 * rm = d /\ (base + qt) % 2 = 1)
        THEN qt + 1 ELSE qt

\* a * b (JavaScript *): |a| * |b| / Unit, rounded.  The product is formed
\* limb by limb so that it stays inside the 32-bit integers of the checker.
Mul[a \in Int, b \in Int] ==
    LET ah == Abs(a) \div Unit
        al == Abs(a) % Unit
        bh == Abs(b) \div Unit
        bl == Abs(b) % Unit
        hi == ah * bh * Unit + ah * bl + al * bh
    IN  Sgn(a) * Sgn(b) * (hi + RoundTo[hi, al * bl, Unit])

\* a / b (JavaScript /) for b # 0: long division, two decimal digits at a
\* time.
Div[a \in Int, b \in Int] ==
    LET q0 == Abs(a) \div Abs(b)
        r0 == Abs(a) % Abs(b)
        q1 == (r0 * 100) \div Abs(b)
        r1 == (r0 * 100) % Abs(b)
        hi == q0 * Unit + q1 * 100
    IN  Sgn(a) * Sgn(b) * (hi + RoundTo[hi, r1 * 100, Abs(b)])

\* a / n for a plain positive integer n.
DivInt[a \in Int, n \in Int] == Sgn(a) * RoundTo[0, Abs(a), n]

\* The largest r in lo..hi with r * r <= v.
SqrtSearch[v \in Nat, lo \in Nat, hi \in Nat] ==
    IF lo >= hi THEN lo
    ELSE LET mid == (lo + hi + 1) \div 2
         IN  IF mid * mid <= v THEN SqrtSearch[v, mid, hi]
             ELSE SqrtSearch[v, lo, mid - 1]

\* Math.sqrt(a) for 0 <= a <= 20 * Unit, rounded to the nearest.
Sqrt[a \in Nat] ==
    LET r == SqrtSearch[a * Unit, 0, 46340]
    IN  IF a * Unit - r * r > r THEN r + 1 ELSE r

\* Taylor series of e^f: the sum of the terms from `term` on, k the index
\* of the next term, n the number of terms left.
ExpSeries[f \in Int, term \in Int, k \in Nat, n \in Nat] ==
    IF term = 0 \/ n = 0 THEN 0
    ELSE term + ExpSeries[f, DivInt[Mul[term, f], k], k + 1, n - 1]

\* e^n for n in -10..2, rounded to four decimals.
ExpTable == <<0, 1, 3, 9, 25, 67, 183, 498, 1353, 3679, 10000, 27183, 73891>>

\* Math.exp(a) for a <= 2.5 * Unit.  a = n + f with |f| <= 1/2; e^a =
\* e^n * e^f.  Below e^-10.5 the result underflows to 0.
Exp[a \in Int] ==
    LET n == (a + Unit \div 2) \div Unit
    IN  IF n < -10 THEN 0
        ELSE Mul[ExpTable[n + 11], ExpSeries[a - n * Unit, Unit, 1, 20]]

\* z^k/k + z^(k+2)/(k+2) + ... with pw = z^k and zz = z^2.
AtanhSeries[pw \in Int, zz \in Int, k \in Nat, n \in Nat] ==
    IF pw = 0 \/ n = 0 THEN 0
    ELSE DivInt[pw, k] + AtanhSeries[Mul[pw, zz], zz, k + 2, n - 1]

\* Math.log(a) for a > 0: ln a = 2 atanh((a - 1) / (a + 1)).
Ln[a \in Int] ==
    LET z == Div[a - Unit, a + Unit]
    IN  2 * AtanhSeries[z, Mul[z, z], 1, 40]

(***************************************************************************)
(* BlackScholes (src/unnamed/part_000, lines 6-225)                        *)
(***************************************************************************)
\* The Abramowitz & Stegun constants of normCDF, to four decimals.
a1 == 2548

a2 == -2845

a3 == 14214

a4 == -14532

a5 == 10614

p == 3276

\* Math.PI
PI == 31416

normCDF[x \in Int] ==
    LET sign == IF x < 0 THEN -1 ELSE 1
        ax == Div[Abs(x), Sqrt[2 * Unit]]
        t == Div[Unit, Unit + Mul[p, ax]]
        y == Unit - Mul[Mul[Mul[Mul[Mul[Mul[a5, t] + a4, t] + a3, t] + a2, t]
                              + a1, t],
                        Exp[-Mul[ax, ax]]]
    IN  Mul[Unit \div 2, Unit + sign * y]

normPDF[x \in Int] == Div[Exp[Mul[Mul[-(Unit \div 2), x], x]], Sqrt[2 * PI]]

calculateD1D2(S, K, T, r, sigma, q) ==
    LET d1 == Div[Ln[Div[S, K]]
                    + Mul[r - q + Mul[Mul[Unit \div 2, sigma], sigma], T],
                  Mul[sigma, Sqrt[T]]]
        d2 == d1 - Mul[sigma, Sqrt[T]]
    IN  [d1 |-> d1, d2 |-> d2]

\* price without the floor at zero in the expiry branch.
price_noFloor(type, S, K, T, r, sigma, q) ==
    IF T <= 0
    THEN IF type = "call" THEN S - K ELSE K - S
    ELSE LET d == calculateD1D2(S, K, T, r, sigma, q)
         IN  IF type = "call"
             THEN Mul[Mul[S, Exp[Mul[-q, T]]], normCDF[d.d1]]
                    - Mul[Mul[K, Exp[Mul[-r, T]]], normCDF[d.d2]]
             ELSE Mul[Mul[K, Exp[Mul[-r, T]]], normCDF[-d.d2]]
                    - Mul[Mul[S, Exp[Mul[-q, T]]], normCDF[-d.d1]]

\* price whose put discounts the spot at the rate r instead of the yield q.
price_putSpotAtRate(type, S, K, T, r, sigma, q) ==
    IF T <= 0
    THEN IF type = "call" THEN Max(0, S - K) ELSE Max(0, K - S)
    ELSE LET d == calculateD1D2(S, K, T, r, sigma, q)
         IN  IF type = "call"
             THEN Mul[Mul[S, Exp[Mul[-q, T]]], normCDF[d.d1]]
                    - Mul[Mul[K, Exp[Mul[-r, T]]], normCDF[d.d2]]
             ELSE Mul[Mul[K, Exp[Mul[-r, T]]], normCDF[-d.d2]]
                    - Mul[Mul[S, Exp[Mul[-r, T]]], normCDF[-d.d1]]

price(type, S, K, T, r, sigma, q) ==
    IF T <= 0
    THEN IF type = "call" THEN Max(0, S - K) ELSE Max(0, K - S)
    ELSE LET d == calculateD1D2(S, K, T, r, sigma, q)
         IN  IF type = "call"
             THEN Mul[Mul[S, Exp[Mul[-q, T]]], normCDF[d.d1]]
                    - Mul[Mul[K, Exp[Mul[-r, T]]], normCDF[d.d2]]
             ELSE Mul[Mul[K, Exp[Mul[-r, T]]], normCDF[-d.d2]]
                    - Mul[Mul[S, Exp[Mul[-q, T]]], normCDF[-d.d1]]

\* delta whose put misses the "- 1".
delta_putUnsigned(type, S, K, T, r, sigma, q) ==
    IF T <= 0
    THEN IF type = "call" THEN (IF S > K THEN Unit ELSE 0)
         ELSE (IF S < K THEN -Unit ELSE 0)
    ELSE LET d == calculateD1D2(S, K, T, r, sigma, q)
             expQt == Exp[Mul[-q, T]]
         IN  IF type = "call" THEN Mul[expQt, normCDF[d.d1]]
             ELSE Mul[expQt, normCDF[d.d1]]

\* delta that counts an at-the-money call as in the money at expiry.
delta_atTheMoney(type, S, K, T, r, sigma, q) ==
    IF T <= 0
    THEN IF type = "call" THEN (IF S >= K THEN Unit ELSE 0)
         ELSE (IF S < K THEN -Unit ELSE 0)
    ELSE LET d == calculateD1D2(S, K, T, r, sigma, q)
             expQt == Exp[Mul[-q, T]]
         IN  IF type = "call" THEN Mul[expQt, normCDF[d.d1]]
             ELSE Mul[expQt, normCDF[d.d1] - Unit]

delta(type, S, K, T, r, sigma, q) ==
    IF T <= 0
    THEN IF type = "call" THEN (IF S > K THEN Unit ELSE 0)
         ELSE (IF S < K THEN -Unit ELSE 0)
    ELSE LET d == calculateD1D2(S, K, T, r, sigma, q)
             expQt == Exp[Mul[-q, T]]
         IN  IF type = "call" THEN Mul[expQt, normCDF[d.d1]]
             ELSE Mul[expQt, normCDF[d.d1] - Unit]

\* gamma with the sign of the density flipped.
gamma_negated(S, K, T, r, sigma, q) ==
    IF T <= 0 THEN 0
    ELSE LET d == calculateD1D2(S, K, T, r, sigma, q)
             expQt == Exp[Mul[-q, T]]
         IN  Div[Mul[expQt, -normPDF[d.d1]], Mul[Mul[S, sigma], Sqrt[T]]]

gamma(S, K, T, r, sigma, q) ==
    IF T <= 0 THEN 0
    ELSE LET d == calculateD1D2(S, K, T, r, sigma, q)
             expQt == Exp[Mul[-q, T]]
         IN  Div[Mul[expQt, normPDF[d.d1]], Mul[Mul[S, sigma], Sqrt[T]]]

theta(type, S, K, T, r, sigma, q) ==
    IF T <= 0 THEN 0
    ELSE LET d == calculateD1D2(S, K, T, r, sigma, q)
             expQt == Exp[Mul[-q, T]]
             expRt == Exp[Mul[-r, T]]
             sqrtT == Sqrt[T]
             term1 == -Div[Mul[Mul[Mul[S, sigma], expQt], normPDF[d.d1]],
                           2 * sqrtT]
         IN  IF type = "call"
             THEN LET term2 == Mul[Mul[Mul[-r, K], expRt], normCDF[d.d2]]
                      term3 == Mul[Mul[Mul[q, S], expQt], normCDF[d.d1]]
                  IN  DivInt[term1 + term2 + term3, 365]
             ELSE LET term2 == Mul[Mul[Mul[r, K], expRt], normCDF[-d.d2]]
                      term3 == Mul[Mul[Mul[-q, S], expQt], normCDF[-d.d1]]
                  IN  DivInt[term1 + term2 + term3, 365]

vega(S, K, T, r, sigma, q) ==
    IF T <= 0 THEN 0
    ELSE LET d == calculateD1D2(S, K, T, r, sigma, q)
             expQt == Exp[Mul[-q, T]]
         IN  DivInt[Mul[Mul[Mul[S, expQt], normPDF[d.d1]], Sqrt[T]], 100]

rho(type, S, K, T, r, sigma, q) ==
    IF T <= 0 THEN 0
    ELSE LET d == calculateD1D2(S, K, T, r, sigma, q)
             expRt == Exp[Mul[-r, T]]
         IN  IF type = "call"
             THEN DivInt[Mul[Mul[Mul[K, T], expRt], normCDF[d.d2]], 100]
             ELSE DivInt[Mul[Mul[Mul[-K, T], expRt], normCDF[-d.d2]], 100]

\* calculateAll that derives gamma and vega from another d1 (S and K swapped).
calculateAll_otherD1(type, S, K, T, r, sigma, q) ==
    [price |-> price(type, S, K, T, r, sigma, q),
     delta |-> delta(type, S, K, T, r, sigma, q),
     gamma |-> gamma(K, S, T, r, sigma, q),
     theta |-> theta(type, S, K, T, r, sigma, q),
     vega |-> vega(K, S, T, r, sigma, q),
     rho |-> rho(type, S, K, T, r, sigma, q)]

calculateAll(type, S, K, T, r, sigma, q) ==
    [price |-> price(type, S, K, T, r, sigma, q),
     delta |-> delta(type, S, K, T, r, sigma, q),
     gamma |-> gamma(S, K, T, r, sigma, q),
     theta |-> theta(type, S, K, T, r, sigma, q),
     vega |-> vega(S, K, T, r, sigma, q),
     rho |-> rho(type, S, K, T, r, sigma, q)]

intrinsicValue(type, S, K) ==
    IF type = "call" THEN Max(0, S - K) ELSE Max(0, K - S)

probITM(type, S, K, T, r, sigma, q) ==
    IF T <= 0
    THEN IF type = "call" THEN (IF S > K THEN Unit ELSE 0)
         ELSE (IF S < K THEN Unit ELSE 0)
    ELSE LET d == calculateD1D2(S, K, T, r, sigma, q)
         IN  IF type = "call" THEN normCDF[d.d2] ELSE normCDF[-d.d2]

breakeven(type, K, premium) ==
    IF type = "call" THEN K + premium ELSE K - premium

(***************************************************************************)
(* State                                                                   *)
(***************************************************************************)
VARIABLES
    terms,      \* the contract terms of the current pricing request
    single,     \* per kind: the results of the engine operations called one by one
    all,        \* per kind: the record calculateAll returned
    fields,     \* calculator: the parsed values of the input elements
    calcType,   \* calculator: currentOptionType
    shown,      \* calculator: the text of the result elements
    yieldShown, \* calculator: the text of the yield-analysis elements
    yieldCall,  \* calculator: the arguments of the last calculateYieldAnalysis call
    alerted,    \* calculator: whether the last calculateOption ended in alert()
    yieldValues,    \* calculator: the numbers the last calculateYieldAnalysis computed
    yieldClass,     \* calculator: the classList of the coloured yield elements
    position,   \* PLChart.position
    data,       \* PLChart.data
    stats,      \* the text of the chart's statistics elements
    chartCall,  \* the arguments of the last PLChart.update call
    currentMidPrice,  \* yield finder: currentMidPrice
    currentStrike,    \* yield finder: currentStrike
    yieldContracts,   \* yield finder: the parsed value of the yield-contracts input
    finderShown,      \* yield finder: the text of the yield-analysis elements
    finderClass,      \* yield finder: the classList of the coloured yield elements
    finderValues,     \* yield finder: the numbers the last calculateYieldAnalysis computed
    finderCall,       \* yield finder: the arguments of the last calculateYieldAnalysis call
    tickerInput,          \* yield finder: the raw value of the ticker input element
    timers,               \* yield finder: the pending setTimeout callbacks
    tickerDebounceTimer,  \* yield finder: tickerDebounceTimer (0 is null)
    nextTimer,            \* the id the next setTimeout call returns
    sinceInput,           \* clock ticks since the last input event on the ticker
    entered,              \* whether Enter was pressed since the last input event
    lastFired,            \* the last debounce callback that ran
    inflight,             \* yield finder: the asynchronous calls awaiting a response
    fetchLog,             \* yield finder: the fetchMarketData calls that completed
    currentTicker,        \* yield finder: currentTicker
    currentStockPrice,    \* yield finder: currentStockPrice
    expirationDates,      \* yield finder: expirationDates
    expirationSelect,     \* yield finder: the options and value of expiration-select
    fetchStatus,          \* yield finder: the text and class of fetch-status
    stockShown,           \* yield finder: the displayed stock price and name
    currentOptionType,    \* yield finder: currentOptionType
    currentExpiration,    \* yield finder: currentExpiration
    currentDaysToMaturity, \* yield finder: currentDaysToMaturity
    strikePrices,         \* yield finder: strikePrices
    strikeSelect,         \* yield finder: the options and value of strike-select
    strikesDone,          \* yield finder: how the last fetchStrikes call went
    quoteShown,           \* yield finder: the text of the option-quote elements
    optionSymbol,         \* the symbol of the fetchOptionQuote call in flight
    finderAlerted,        \* yield finder: whether the last handler ended in alert()
    clipboard,            \* the order text last written to the clipboard
    lastQuote,            \* the last record fetchOptionData returned
    calcTicker,           \* calculator: the raw value of the ticker input element
    fetchBtn,             \* calculator: disabled and textContent of fetch-btn
    calcStatus,           \* calculator: the text and class of fetch-status
    calcFlight,           \* calculator: the fetchMarketData calls awaiting a response
    calcOutcome,          \* calculator: how the last completed fetchMarketData went
    ieee                  \* chart: a sample and the bounds of calculatePLData in doubles

engineVars == <<terms, single, all>>

calcVars ==
    <<fields, calcType, shown, yieldShown, yieldCall, alerted, yieldValues,
      yieldClass>>

chartVars == <<position, data, stats, chartCall>>

finderVars ==
    <<currentMidPrice, currentStrike, yieldContracts, finderShown, finderClass,
      finderValues, finderCall>>

tickerVars ==
    <<tickerInput, timers, tickerDebounceTimer, nextTimer, sinceInput, entered,
      lastFired>>

marketVars ==
    <<inflight, fetchLog, currentTicker, currentStockPrice, expirationDates,
      expirationSelect, fetchStatus, stockShown>>

selectVars ==
    <<currentOptionType, currentExpiration, currentDaysToMaturity, strikePrices,
      strikeSelect, strikesDone>>

quoteVars == <<quoteShown, optionSymbol, finderAlerted, clipboard, lastQuote>>

netVars == <<tickerVars, marketVars, selectVars, quoteVars>>

fetchVars == <<calcTicker, fetchBtn, calcStatus, calcFlight, calcOutcome>>

vars == <<engineVars, calcVars, chartVars, finderVars, netVars, fetchVars, ieee>>

Kinds == {"call", "put"}

(***************************************************************************)
(* Pricing requests: the engine's operations applied to bounded terms      *)
(***************************************************************************)
\* The longest expiry, in years.
MaxYears == 1

\* Spot prices are 50, 100, ..., 50 * MaxSpot.
MaxSpot == 4

\* T = days / 365 (src/app.js:258).
DaysToYears(days) == Div[days, 365 * Unit]

SpotValues == {50 * Unit * i : i \in 1..MaxSpot}

StrikeValues == {100 * Unit}

TValues == {DaysToYears(-Unit), 0, DaysToYears(30 * Unit)}
             \cup {y * Unit : y \in 1..MaxYears}

RateValues == {-100, 500}

VolValues == {2000, 5000}

DivValues == {-500, 0, 300}

\* The terms a request may carry.  With T > 0 and S <= 0, K <= 0 or
\* sigma <= 0 calculateD1D2 yields NaN or an infinity, which the fixed-point
\* kernel does not represent: such terms appear only with T <= 0, where
\* the code never reaches calculateD1D2.
TermsDomain ==
    {t \in [S : SpotValues \cup {0}, K : StrikeValues, T : TValues,
            r : RateValues, sigma : VolValues \cup {0}, q : DivValues] :
        (t.S <= 0 \/ t.sigma <= 0) => t.T <= 0}

NoResult ==
    [done |-> FALSE, status |-> "none", price |-> 0, delta |-> 0, gamma |-> 0,
     theta |-> 0, vega |-> 0, rho |-> 0, probITM |-> 0]

\* The outcome of calling price, delta, gamma, theta, vega, rho and probITM
\* with the same arguments.  No operation of BlackScholes has a throw
\* statement: every call returns.
EachResult(type, t) ==
    [done |-> TRUE, status |-> "returned",
     price |-> price(type, t.S, t.K, t.T, t.r, t.sigma, t.q),
     delta |-> delta(type, t.S, t.K, t.T, t.r, t.sigma, t.q),
     gamma |-> gamma(t.S, t.K, t.T, t.r, t.sigma, t.q),
     theta |-> theta(type, t.S, t.K, t.T, t.r, t.sigma, t.q),
     vega |-> vega(t.S, t.K, t.T, t.r, t.sigma, t.q),
     rho |-> rho(type, t.S, t.K, t.T, t.r, t.sigma, t.q),
     probITM |-> probITM(type, t.S, t.K, t.T, t.r, t.sigma, t.q)]

\* The outcome of calculateAll; it has no probITM field.
AllResult(type, t) ==
    calculateAll(type, t.S, t.K, t.T, t.r, t.sigma, t.q)
      @@ [done |-> TRUE, status |-> "returned", probITM |-> 0]

\* A request is issued when the page is idle or the previous request has been
\* answered in full.
NewRequest ==
    /\ \/ \A k \in Kinds : ~single[k].done /\ ~all[k].done
       \/ \A k \in Kinds : single[k].done /\ all[k].done
    /\ \E t \in TermsDomain : terms' = t
    /\ single' = [k \in Kinds |-> NoResult]
    /\ all' = [k \in Kinds |-> NoResult]
    /\ UNCHANGED <<calcVars, chartVars, finderVars, netVars,
                   fetchVars, ieee>>

CallEach ==
    /\ \E k \in Kinds :
          /\ ~single[k].done
          /\ single' = [single EXCEPT ![k] = EachResult(k, terms)]
    /\ UNCHANGED <<terms, all, calcVars, chartVars, finderVars, netVars,
                   fetchVars, ieee>>

CallAll ==
    /\ \E k \in Kinds :
          /\ ~all[k].done
          /\ all' = [all EXCEPT ![k] = AllResult(k, terms)]
    /\ UNCHANGED <<terms, single, calcVars, chartVars, finderVars, netVars,
                   fetchVars, ieee>>

(***************************************************************************)
(* Calculator front end (src/app.js, lines 1-470)                          *)
(***************************************************************************)
\* What parseFloat makes of an input element's text: a number, or NaN.
Num(v) == [nan |-> FALSE, v |-> v]

NaN == [nan |-> TRUE, v |-> 0]

\* The text of an output element: "--", or a formatted number.  v holds the
\* digits toFixed keeps.
Blank == [t |-> "--", v |-> 0]

\* value.toFixed(2) and the like: a fixed-point number rounded to `digits`
\* decimals (digits <= 4), as an integer count of 10^-digits.
ToFixed(value, digits) ==
    DivInt[value, IF digits = 4 THEN 1 ELSE IF digits = 2 THEN 100 ELSE 1000]

\* The formatters are applied to finite numbers only: the model's numbers are
\* all finite, so their isNaN / !isFinite branch ('--') is never taken here.
formatCurrency(value) == [t |-> "$", v |-> ToFixed(value, 2)]

formatNumber(value, decimals) == [t |-> "n", v |-> ToFixed(value, decimals)]

formatPercent(value) == [t |-> "%1", v |-> ToFixed(Mul[value, 100 * Unit], 1)]

formatYieldPercent(value) ==
    [t |-> "%2", v |-> ToFixed(Mul[value, 100 * Unit], 2)]

\* The eight yield outputs.
YieldOutputs ==
    {"annualized-yield", "period-yield", "premium-per-day", "monthly-yield",
     "capital-required", "assigned-return", "assigned-annualized",
     "effective-price"}

YieldElements == YieldOutputs \cup {"dte-display"}

\* The elements applyYieldColor is called for.
ColouredOutputs ==
    {"annualized-yield", "period-yield", "monthly-yield", "assigned-annualized"}

YieldClasses == {"excellent", "good", "moderate", "low", "negative"}

\* calculateYieldAnalysis with a year of 360 days.
yieldMetrics_year360(S, K, days, premium, type) ==
    LET periodYield == Div[premium, S]
        annualizedYield == Mul[periodYield, Div[360 * Unit, days]]
        assignedReturn ==
            IF type = "call" THEN Div[premium + (K - S), S]
            ELSE Div[premium, K]
    IN  [periodYield |-> periodYield,
         annualizedYield |-> annualizedYield,
         premiumPerDay |-> Div[premium, days],
         monthlyYield |-> DivInt[annualizedYield, 12],
         capitalRequired |->
            IF type = "call" THEN Mul[S, 100 * Unit] ELSE Mul[K, 100 * Unit],
         assignedReturn |-> assignedReturn,
         assignedAnnualized |-> Mul[assignedReturn, Div[365 * Unit, days]],
         effectivePrice |-> IF type = "call" THEN K + premium ELSE K - premium]

\* calculateYieldAnalysis with the capital of a put taken from the spot.
yieldMetrics_putCapitalSpot(S, K, days, premium, type) ==
    LET periodYield == Div[premium, S]
        annualizedYield == Mul[periodYield, Div[365 * Unit, days]]
        assignedReturn ==
            IF type = "call" THEN Div[premium + (K - S), S]
            ELSE Div[premium, K]
    IN  [periodYield |-> periodYield,
         annualizedYield |-> annualizedYield,
         premiumPerDay |-> Div[premium, days],
         monthlyYield |-> DivInt[annualizedYield, 12],
         capitalRequired |-> Mul[S, 100 * Unit],
         assignedReturn |-> assignedReturn,
         assignedAnnualized |-> Mul[assignedReturn, Div[365 * Unit, days]],
         effectivePrice |-> IF type = "call" THEN K + premium ELSE K - premium]

\* The numbers calculateYieldAnalysis computes (src/app.js:303-337; the
\* yield finders compute the same, src/unnamed/part_000:967-993).
yieldMetrics(S, K, days, premium, type) ==
    LET periodYield == Div[premium, S]
        annualizedYield == Mul[periodYield, Div[365 * Unit, days]]
        assignedReturn ==
            IF type = "call" THEN Div[premium + (K - S), S]
            ELSE Div[premium, K]
    IN  [periodYield |-> periodYield,
         annualizedYield |-> annualizedYield,
         premiumPerDay |-> Div[premium, days],
         monthlyYield |-> DivInt[annualizedYield, 12],
         capitalRequired |->
            IF type = "call" THEN Mul[S, 100 * Unit] ELSE Mul[K, 100 * Unit],
         assignedReturn |-> assignedReturn,
         assignedAnnualized |-> Mul[assignedReturn, Div[365 * Unit, days]],
         effectivePrice |-> IF type = "call" THEN K + premium ELSE K - premium]

NoYieldValues ==
    [computed |-> FALSE, periodYield |-> 0, annualizedYield |-> 0,
     premiumPerDay |-> 0, monthlyYield |-> 0, capitalRequired |-> 0,
     assignedReturn |-> 0, assignedAnnualized |-> 0, effectivePrice |-> 0]

\* The texts calculateYieldAnalysis writes with updateDisplay.
YieldTexts(m, days) ==
    [id \in YieldElements |->
        CASE id = "annualized-yield" -> formatYieldPercent(m.annualizedYield)
          [] id = "dte-display" -> [t |-> "n", v |-> days]
          [] id = "period-yield" -> formatYieldPercent(m.periodYield)
          [] id = "premium-per-day" -> formatCurrency(m.premiumPerDay)
          [] id = "monthly-yield" -> formatYieldPercent(m.monthlyYield)
          [] id = "capital-required" -> formatCurrency(m.capitalRequired)
          [] id = "assigned-return" -> formatYieldPercent(m.assignedReturn)
          [] id = "assigned-annualized" ->
                formatYieldPercent(m.assignedAnnualized)
          [] id = "effective-price" -> formatCurrency(m.effectivePrice)]

\* The value applyYieldColor is called with for a coloured element.
ColouredValue(m, id) ==
    CASE id = "annualized-yield" -> m.annualizedYield
      [] id = "period-yield" -> m.periodYield
      [] id = "monthly-yield" -> m.monthlyYield
      [] id = "assigned-annualized" -> m.assignedAnnualized

\* applyYieldColor without the removal of the earlier class.
applyYieldColor_keepsEarlier(classList, yieldValue) ==
    classList
      \cup {IF yieldValue < 0 THEN "negative"
            ELSE IF yieldValue >= (30 * Unit) \div 100 THEN "excellent"
            ELSE IF yieldValue >= (15 * Unit) \div 100 THEN "good"
            ELSE IF yieldValue >= (8 * Unit) \div 100 THEN "moderate"
            ELSE "low"}

\* applyYieldColor: the element's classList after the call.
applyYieldColor(classList, yieldValue) ==
    (classList \ YieldClasses)
      \cup {IF yieldValue < 0 THEN "negative"
            ELSE IF yieldValue >= (30 * Unit) \div 100 THEN "excellent"
            ELSE IF yieldValue >= (15 * Unit) \div 100 THEN "good"
            ELSE IF yieldValue >= (8 * Unit) \div 100 THEN "moderate"
            ELSE "low"}

\* The classLists after updateDisplay (which removes 'positive' and
\* 'negative') and applyYieldColor.
YieldColours(classes, m) ==
    [id \in ColouredOutputs |->
        applyYieldColor(classes[id] \ {"positive", "negative"},
                        ColouredValue(m, id))]

\* calculateYieldAnalysis of the calculator.  It has no test of premium.
calculateYieldAnalysis(S, K, days, premium, type) ==
    \E m \in {yieldMetrics(S, K, days, premium, type)} :
        /\ yieldValues' = [computed |-> TRUE] @@ m
        /\ yieldShown' = YieldTexts(m, days)
        /\ yieldClass' = YieldColours(yieldClass, m)
        /\ yieldCall' =
              [called |-> TRUE, S |-> S, K |-> K, days |-> days,
               premium |-> premium, type |-> type]

(***************************************************************************)
(* Yield finder (src/unnamed/part_000)                                     *)
(***************************************************************************)
FinderElements == YieldElements \cup {"projected-premium", "total-notional"}

\* updatePremiumCalculation: the two texts it writes, for the mid price it
\* finds in currentMidPrice.  parseInt(...) || 1 is 1 for a blank input and
\* for 0.  The thousands separators of this page's formatCurrency are not
\* part of a text's value.
updatePremiumCalculation(midPrice) ==
    LET contracts == IF yieldContracts.nan \/ yieldContracts.v = 0 THEN 1
                     ELSE yieldContracts.v
        projectedPremium == contracts * 100 * midPrice
        totalNotional == currentStrike * contracts * 100
    IN  [id \in {"projected-premium", "total-notional"} |->
            IF id = "projected-premium" THEN formatCurrency(projectedPremium)
            ELSE formatCurrency(totalNotional)]

resetYieldDisplay_keepsMidPrice ==
    /\ finderShown' =
          [id \in FinderElements |->
              IF id = "dte-display" THEN finderShown[id] ELSE Blank]
    /\ finderClass' =
          [id \in ColouredOutputs |-> finderClass[id] \ {"positive", "negative"}]
    /\ currentMidPrice' = currentMidPrice

\* resetYieldDisplay.  updateDisplay removes 'positive' and 'negative' from
\* the eight outputs; 'dte-display' keeps its text.
resetYieldDisplay ==
    /\ finderShown' =
          [id \in FinderElements |->
              IF id = "dte-display" THEN finderShown[id] ELSE Blank]
    /\ finderClass' =
          [id \in ColouredOutputs |-> finderClass[id] \ {"positive", "negative"}]
    /\ currentMidPrice' = 0

\* calculateYieldAnalysis of the yield finder.
calculateYieldAnalysisFinder(S, K, days, premium, type) ==
    /\ finderCall' =
          [called |-> TRUE, S |-> S, K |-> K, days |-> days,
           premium |-> premium, type |-> type]
    /\ IF premium <= 0
       THEN /\ resetYieldDisplay
            /\ finderValues' = NoYieldValues
       ELSE \E m \in {yieldMetrics(S, K, days, premium, type)} :
            /\ currentMidPrice' = premium
            /\ finderValues' = [computed |-> TRUE] @@ m
            /\ finderShown' = updatePremiumCalculation(premium) @@ YieldTexts(m, days)
            /\ finderClass' = YieldColours(finderClass, m)

\* The largest premium, in half dollars.
MaxHalfDollars == 5

\* The arguments the yield analysis is called with.
YieldInputs ==
    [S : {100 * Unit}, K : {95 * Unit, 100 * Unit}, days : {Unit, 30 * Unit},
     premium : {i * (Unit \div 2) : i \in 0..MaxHalfDollars}, type : Kinds]

\* The calculator analyses a premium.
CalculatorAnalysis ==
    /\ \E a \in YieldInputs :
          calculateYieldAnalysis(a.S, a.K, a.days, a.premium, a.type)
    /\ UNCHANGED <<fields, calcType, shown, alerted, engineVars, chartVars,
                   finderVars, netVars,
                   fetchVars, ieee>>

\* The yield finder analyses a quote of the strike it has selected
\* (src/unnamed/part_000:812).
FinderAnalysis ==
    /\ \E a \in YieldInputs :
          /\ a.K = currentStrike
          /\ calculateYieldAnalysisFinder(a.S, a.K, a.days, a.premium, a.type)
    /\ UNCHANGED <<currentStrike, yieldContracts, engineVars, calcVars, chartVars,
                   netVars, fetchVars, ieee>>

ResultElements ==
    {"option-premium", "intrinsic-value", "time-value", "delta", "gamma",
     "theta", "vega", "rho", "prob-itm", "prob-otm", "breakeven"}

\* The number of strikes the strike input may hold: 100, 110, ...
CalcStrikes == 2

FieldDomain ==
    [S : {NaN, Num(0), Num(100 * Unit)},
     K : {NaN} \cup {Num((100 + 10 * (i - 1)) * Unit) : i \in 1..CalcStrikes},
     days : {NaN, Num(0), Num(Unit \div 2), Num(Unit), Num(30 * Unit)},
     vol : {Num(0), Num(20 * Unit)},
     r : {Num(5 * Unit)},
     q : {Num(0)},
     contracts : {Num(1)}]

NoYieldCall ==
    [called |-> FALSE, S |-> 0, K |-> 0, days |-> 0, premium |-> 0,
     type |-> "call"]

\* x / 100 of a parsed number (NaN / 100 is NaN).
Percent(x) == IF x.nan THEN NaN ELSE Num(DivInt[x.v, 100])

\* The user edits one input element.
EditField ==
    /\ \E f \in FieldDomain :
          /\ Cardinality({n \in DOMAIN fields : fields[n] # f[n]}) = 1
          /\ fields' = f
    /\ UNCHANGED <<calcType, shown, yieldShown, yieldCall, alerted, yieldValues,
                   yieldClass, engineVars, chartVars, finderVars, netVars,
                   fetchVars, ieee>>

setOptionType ==
    /\ \E type \in Kinds : calcType' = type
    /\ UNCHANGED <<fields, shown, yieldShown, yieldCall, alerted, yieldValues,
                   yieldClass, engineVars, chartVars, finderVars, netVars,
                   fetchVars, ieee>>

(***************************************************************************)
(* P/L chart (src/chart.js)                                                *)
(***************************************************************************)
\* maxProfit and maxLoss: Infinity, or a finite number.
Infinity == [inf |-> TRUE, v |-> 0]

Finite(v) == [inf |-> FALSE, v |-> v]

\* The prices the loop of calculatePLData visits:
\* for (let price = minPrice; price <= maxPrice; price += step).
\* The loop adds step until the price passes maxPrice: sample i is
\* from + (i - 1) * step.  (With from <= maxPrice and step = 0 the loop does
\* not end; no spot of the model gives that.)
SamplePrices[from \in Int, maxPrice \in Int, step \in Int] ==
    IF from <= maxPrice
    THEN [i \in 1..((maxPrice - from) \div step + 1) |-> from + (i - 1) * step]
    ELSE <<>>

\* The P/L at expiration without the sign of the position.
expiryPL_unsigned(type, samplePrice, K, premium, multiplier, contracts) ==
    IF type = "call"
    THEN (Max(0, samplePrice - K) - premium) * (100 * contracts)
    ELSE (Max(0, K - samplePrice) - premium) * (100 * contracts)

\* The P/L at expiration with the premium added to the payoff.
expiryPL_premiumAdded(type, samplePrice, K, premium, multiplier, contracts) ==
    IF type = "call"
    THEN (Max(0, samplePrice - K) + premium) * multiplier * (100 * contracts)
    ELSE (Max(0, K - samplePrice) + premium) * multiplier * (100 * contracts)

\* The P/L at the valuation date priced at the strike, not at the sample.
currentPL_atStrike(type, samplePrice, K, T, r, sigma, q, premium, multiplier, contracts) ==
    (price(type, K, K, T, r, sigma, q) - premium) * multiplier
      * (100 * contracts)

\* A breakeven mirrored for the short position.
PLChart_breakeven_shortMirrored(type, K, premium, pos) ==
    IF pos = "long"
    THEN (IF type = "call" THEN K + premium ELSE K - premium)
    ELSE (IF type = "call" THEN K - premium ELSE K + premium)

\* A short put that can lose no more than the premium.
maxLoss_shortPutPremium(type, K, premium, contracts, pos) ==
    IF type = "call"
    THEN (IF pos = "long" THEN Finite(premium * 100 * contracts)
          ELSE Infinity)
    ELSE (IF pos = "long" THEN Finite(premium * 100 * contracts)
          ELSE Finite(premium * 100 * contracts))

\* The P/L at expiration of one sample, for multiplier 1 (long) or -1
\* (short).  contracts is a plain integer (parseInt); contractSize is 100.
expiryPL(type, samplePrice, K, premium, multiplier, contracts) ==
    IF type = "call"
    THEN (Max(0, samplePrice - K) - premium) * multiplier * (100 * contracts)
    ELSE (Max(0, K - samplePrice) - premium) * multiplier * (100 * contracts)

\* The P/L of one sample at the valuation date.
currentPL(type, samplePrice, K, T, r, sigma, q, premium, multiplier, contracts) ==
    (price(type, samplePrice, K, T, r, sigma, q) - premium) * multiplier
      * (100 * contracts)

\* The breakeven of calculatePLData.
PLChart_breakeven(type, K, premium, pos) ==
    IF pos = "long"
    THEN (IF type = "call" THEN K + premium ELSE K - premium)
    ELSE (IF type = "call" THEN K + premium ELSE K - premium)

maxProfit(type, K, premium, contracts, pos) ==
    IF type = "call"
    THEN (IF pos = "long" THEN Infinity
          ELSE Finite(premium * 100 * contracts))
    ELSE (IF pos = "long" THEN Finite((K - premium) * 100 * contracts)
          ELSE Finite(premium * 100 * contracts))

maxLoss(type, K, premium, contracts, pos) ==
    IF type = "call"
    THEN (IF pos = "long" THEN Finite(premium * 100 * contracts)
          ELSE Infinity)
    ELSE (IF pos = "long" THEN Finite(premium * 100 * contracts)
          ELSE Finite((K - premium) * 100 * contracts))

calculatePLData(type, S, K, T, r, sigma, q, premium, contracts, pos) ==
    LET multiplier == IF pos = "long" THEN 1 ELSE -1
        minPrice == Max(Unit \div 100, Mul[S, Unit \div 2])
        maxPrice == Mul[S, (3 * Unit) \div 2]
        step == DivInt[maxPrice - minPrice, 200]
        Loop[prices \in Seq(Int)] ==
            [expiryData |->
                [i \in DOMAIN prices |->
                    [price |-> prices[i],
                     pl |-> expiryPL(type, prices[i], K, premium, multiplier,
                                     contracts)]],
             currentData |->
                IF T > 0
                THEN [i \in DOMAIN prices |->
                        [price |-> prices[i],
                         pl |-> currentPL(type, prices[i], K, T, r, sigma, q,
                                          premium, multiplier, contracts)]]
                ELSE <<>>]
    IN  Loop[SamplePrices[minPrice, maxPrice, step]]
          @@ [breakeven |-> PLChart_breakeven(type, K, premium, pos),
              maxProfit |-> maxProfit(type, K, premium, contracts, pos),
              maxLoss |-> maxLoss(type, K, premium, contracts, pos),
              currentPrice |-> S,
              strike |-> K]

\* PLChart.data before the first update (null).
NoData == [set |-> FALSE]

\* No call of PLChart.update yet.
NoChartCall ==
    [called |-> FALSE, type |-> "call", S |-> 0, K |-> 0, T |-> 0, r |-> 0,
     sigma |-> 0, q |-> 0, premium |-> 0, contracts |-> 0, position |-> "long"]

StatElements == {"max-profit", "max-loss", "risk-reward", "chart-breakeven"}

\* updateStats: the texts it writes.  maxProfit / maxLoss is the quotient of
\* two multiples of contractSize; both are divided by it first, which keeps
\* the long division inside the 32-bit integers and leaves the quotient as
\* it is.
updateStats(d) ==
    [id \in StatElements |->
        CASE id = "max-profit" ->
                IF d.maxProfit.inf THEN [t |-> "Unlimited", v |-> 0]
                ELSE [t |-> "+$", v |-> ToFixed(d.maxProfit.v, 2)]
          [] id = "max-loss" ->
                IF d.maxLoss.inf THEN [t |-> "Unlimited", v |-> 0]
                ELSE [t |-> "-$", v |-> ToFixed(d.maxLoss.v, 2)]
          [] id = "risk-reward" ->
                IF d.maxProfit.inf \/ d.maxLoss.inf
                THEN (IF d.maxProfit.inf THEN [t |-> "Unlimited", v |-> 0]
                      ELSE [t |-> "0", v |-> 0])
                ELSE IF d.maxLoss.v > 0
                THEN [t |-> ":1",
                      v |-> ToFixed(Div[d.maxProfit.v \div 100,
                                        d.maxLoss.v \div 100], 2)]
                ELSE Blank
          [] id = "chart-breakeven" -> [t |-> "$", v |-> ToFixed(d.breakeven, 2)]]

\* PLChart.update; chartCall keeps the arguments of the call and the
\* position it read.  render draws on the canvas, which is not modelled, but
\* for one thing: with no sample it reads expiryData[0].price of an empty
\* array and throws, so that updateStats is not reached.
PLChart_updateAt(pos, type, S, K, T, r, sigma, q, premium, contracts) ==
    \E d \in {calculatePLData(type, S, K, T, r, sigma, q, premium, contracts,
                              pos)} :
        /\ data' = [set |-> TRUE, type |-> type, premium |-> premium,
                    contracts |-> contracts, T |-> T] @@ d
        /\ stats' = IF Len(d.expiryData) = 0 THEN stats ELSE updateStats(d)
        /\ chartCall' =
              [called |-> TRUE, type |-> type, S |-> S, K |-> K, T |-> T,
               r |-> r, sigma |-> sigma, q |-> q, premium |-> premium,
               contracts |-> contracts, position |-> pos]

\* PLChart.update called while PLChart.position stays as it is.
PLChart_update(type, S, K, T, r, sigma, q, premium, contracts) ==
    /\ PLChart_updateAt(position, type, S, K, T, r, sigma, q, premium, contracts)
    /\ UNCHANGED position

PLChart_setPosition ==
    /\ \E pos \in {"long", "short"} : position' = pos
    /\ UNCHANGED <<data, stats, chartCall>>

\* The largest number of contracts.
MaxContracts == 2

\* The arguments update is called with.  The valuation-date curve costs a
\* pricing per sample: it is drawn for one spot and one premium.
ChartInputs ==
    [type : Kinds, S : {50 * Unit, 100 * Unit, 100 * Unit + 300},
     K : {100 * Unit}, T : {0}, r : {500}, sigma : {2000}, q : {0},
     premium : {0, 24900, 5 * Unit}, contracts : 1..MaxContracts]
    \cup
    [type : Kinds, S : {100 * Unit}, K : {100 * Unit},
     T : {DaysToYears(30 * Unit)}, r : {500}, sigma : {2000}, q : {0},
     premium : {24900}, contracts : {1}]

\* A page calls PLChart.update.
Update ==
    /\ \E a \in ChartInputs :
          PLChart_update(a.type, a.S, a.K, a.T, a.r, a.sigma, a.q, a.premium,
                         a.contracts)
    /\ UNCHANGED <<engineVars, calcVars, finderVars, netVars,
                   fetchVars, ieee>>

SetPosition ==
    /\ PLChart_setPosition
    /\ UNCHANGED <<engineVars, calcVars, finderVars, netVars,
                   fetchVars, ieee>>

\* updateChart (src/chart.js:600-616), on the calculator page, with
\* PLChart.position being pos.  It tests its inputs for NaN only.  (With
\* T > 0 and S <= 0 or sigma <= 0 the premium is computed from an infinite
\* d1; the model's pages do not call it then.)
updateChartAt(pos) ==
    LET S == fields.S
        K == fields.K
        days == fields.days
        sigma == Percent(fields.vol)
        r == Percent(fields.r)
        q == Percent(fields.q)
        contracts == IF fields.contracts.nan \/ fields.contracts.v = 0 THEN 1
                     ELSE fields.contracts.v
    IN  IF S.nan \/ K.nan \/ days.nan \/ sigma.nan
        THEN UNCHANGED <<data, stats, chartCall>>
        ELSE \E T \in {DaysToYears(days.v)} :
             \E premium \in {price(calcType, S.v, K.v, T, r.v, sigma.v, q.v)} :
                PLChart_updateAt(pos, calcType, S.v, K.v, T, r.v, sigma.v, q.v,
                                 premium, contracts)

\* updateChart called while PLChart.position stays as it is.
updateChart ==
    /\ updateChartAt(position)
    /\ UNCHANGED position

\* The global setPosition (src/chart.js:584-597) of the calculator page.
setPosition ==
    /\ \E pos \in {"long", "short"} :
          /\ position' = pos
          /\ updateChartAt(pos)
    /\ UNCHANGED <<engineVars, calcVars, finderVars, netVars,
                   fetchVars, ieee>>

\* The inputs the page holds when the position buttons are used as well:
\* NaN, zero and one positive value for each of S, days and the
\* volatility, without the values whose premium d1 makes infinite.
ChartFieldDomain ==
    {f \in FieldDomain :
        /\ f.K \in {NaN, Num(100 * Unit)}
        /\ f.days \in {NaN, Num(0), Num(30 * Unit)}
        /\ (~f.S.nan /\ ~f.K.nan /\ ~f.days.nan /\ f.days.v > 0) =>
              (f.S.v > 0 /\ f.vol.v > 0)}

\* calculateOption's validation (src/app.js:240-255).
InvalidInputs(S, K, days, sigma) ==
    \/ S.nan \/ S.v <= 0
    \/ K.nan \/ K.v <= 0
    \/ days.nan \/ days.v <= 0
    \/ sigma.nan \/ sigma.v <= 0

calculateOption ==
    LET S == fields.S
        K == fields.K
        days == fields.days
        sigma == Percent(fields.vol)
        r == Percent(fields.r)
        q == Percent(fields.q)
    IN  IF InvalidInputs(S, K, days, sigma)
        THEN /\ alerted' = TRUE
             /\ UNCHANGED <<fields, calcType, shown, yieldShown, yieldCall,
                            yieldValues, yieldClass, engineVars, chartVars,
                            finderVars, netVars,
                   fetchVars, ieee>>
        ELSE \E T \in {DaysToYears(days.v)} :
             \E results \in {calculateAll(calcType, S.v, K.v, T, r.v, sigma.v, q.v)},
                prob \in {probITM(calcType, S.v, K.v, T, r.v, sigma.v, q.v)} :
             LET intrinsic == intrinsicValue(calcType, S.v, K.v)
                 timeValue == results.price - intrinsic
                 be == breakeven(calcType, K.v, results.price)
             IN  /\ shown' =
                       [id \in ResultElements |->
                          CASE id = "option-premium" -> formatCurrency(results.price)
                            [] id = "intrinsic-value" -> formatCurrency(intrinsic)
                            [] id = "time-value" -> formatCurrency(timeValue)
                            [] id = "delta" -> formatNumber(results.delta, 4)
                            [] id = "gamma" -> formatNumber(results.gamma, 4)
                            [] id = "theta" -> formatNumber(results.theta, 4)
                            [] id = "vega" -> formatNumber(results.vega, 4)
                            [] id = "rho" -> formatNumber(results.rho, 4)
                            [] id = "prob-itm" -> formatPercent(prob)
                            [] id = "prob-otm" -> formatPercent(Unit - prob)
                            [] id = "breakeven" -> formatCurrency(be)]
                 /\ updateChart
                 /\ calculateYieldAnalysis(S.v, K.v, days.v, results.price,
                                           calcType)
                 /\ alerted' = FALSE
                 /\ UNCHANGED <<fields, calcType, engineVars, finderVars, netVars,
                   fetchVars, ieee>>

(***************************************************************************)
(* Yield finder: the ticker input, its debounce timer and fetchMarketData  *)
(***************************************************************************)
\* What the ticker input can hold, and what trim().toUpperCase() makes of it.
RawTickers == {"", " ", "a", " b ", "ABCDEF"}

trimUpper ==
    [raw \in RawTickers |->
        CASE raw = " " -> ""
          [] raw = "a" -> "A"
          [] raw = " b " -> "B"
          [] OTHER -> raw]

\* The symbols the market-data service knows, and what it answers for them.
Tickers == {"A", "B"}

StockPriceOf == [t \in Tickers |-> IF t = "A" THEN 100 * Unit ELSE 50 * Unit]

ExpirationsOf == [t \in Tickers |-> IF t = "A" THEN <<"e1">> ELSE <<"e2">>]

\* The delay of the debounce timer in clock ticks of 250 ms.
DebounceTicks == 2

MaxTimers == 3

MaxFetches == 2

NoStatus == [text |-> "", ticker |-> "", class |-> ""]

StatusFetching ==
    [text |-> "Fetching...", ticker |-> "", class |-> "status-message loading"]

StatusLoaded(ticker) ==
    [text |-> "Loaded: ", ticker |-> ticker, class |-> "status-message success"]

StatusError == [text |-> "Error: ", ticker |-> "", class |-> "status-message error"]

NoSelect == [options |-> <<>>, value |-> ""]

NoQuote == [returned |-> FALSE]

NoSymbol == [built |-> FALSE]

NoStrikes == [called |-> FALSE, turn |-> FALSE, loaded |-> FALSE, thrown |-> FALSE]

Remove(s, i) == [j \in 1..(Len(s) - 1) |-> IF j < i THEN s[j] ELSE s[j + 1]]

\* The members of a list.
Range(s) == {s[i] : i \in DOMAIN s}

\* clearTimeout(id) on the pending timers; a null or spent id clears nothing.
clearTimeout(pending, id) == {t \in pending : t.id # id}

\* An asynchronous call that awaits the answer to a request.
Task(fn, pc, ticker, expiration, type, strike, caller) ==
    [fn |-> fn, pc |-> pc, ticker |-> ticker, expiration |-> expiration,
     type |-> type, strike |-> strike, caller |-> caller]

\* The fetchMarketData calls started so far.
MarketCalls ==
    Cardinality({i \in DOMAIN inflight : inflight[i].fn = "fetchMarketData"})
       + Len(fetchLog)

\* The part of fetchMarketData(ticker) that runs before its first await.
fetchMarketData(arg) ==
    \E ticker \in {IF arg = "" THEN trimUpper[tickerInput] ELSE arg} :
       IF ticker = ""
          THEN UNCHANGED <<currentTicker, inflight>>
          ELSE /\ currentTicker' = ticker
               /\ inflight' = Append(inflight,
                                     Task("fetchMarketData", "fetchStockQuote",
                                          ticker, "", "", 0, ""))

onTickerInput_keepsTimer(raw) ==
    /\ tickerInput' = raw
    /\ sinceInput' = 0
    /\ entered' = FALSE
    /\ \E ticker \in {trimUpper[raw]} :
          IF Len(ticker) >= 1 /\ Len(ticker) <= 5
             THEN /\ nextTimer <= MaxTimers
                  /\ fetchStatus' = StatusFetching
                  /\ timers' = timers \cup
                         {[id |-> nextTimer, ticker |-> ticker,
                           left |-> DebounceTicks]}
                  /\ tickerDebounceTimer' = nextTimer
                  /\ nextTimer' = nextTimer + 1
             ELSE /\ timers' = timers
                  /\ UNCHANGED <<fetchStatus, tickerDebounceTimer, nextTimer>>

\* onTickerInput(e), raw being e.target.value.
onTickerInput(raw) ==
    /\ tickerInput' = raw
    /\ sinceInput' = 0
    /\ entered' = FALSE
    /\ \E ticker \in {trimUpper[raw]} :
          IF Len(ticker) >= 1 /\ Len(ticker) <= 5
             THEN /\ nextTimer <= MaxTimers
                  /\ fetchStatus' = StatusFetching
                  /\ timers' = clearTimeout(timers, tickerDebounceTimer) \cup
                         {[id |-> nextTimer, ticker |-> ticker,
                           left |-> DebounceTicks]}
                  /\ tickerDebounceTimer' = nextTimer
                  /\ nextTimer' = nextTimer + 1
             ELSE /\ timers' = clearTimeout(timers, tickerDebounceTimer)
                  /\ UNCHANGED <<fetchStatus, tickerDebounceTimer, nextTimer>>

\* An input event on the ticker element.
TickerInput ==
    /\ \E raw \in RawTickers : onTickerInput(raw)
    /\ UNCHANGED <<lastFired, inflight, fetchLog, currentTicker, currentStockPrice,
                   expirationDates, expirationSelect, stockShown>>
    /\ UNCHANGED <<selectVars, quoteVars, engineVars, calcVars, chartVars,
                   finderVars, fetchVars, ieee>>

\* 250 ms pass.
Tick ==
    /\ \/ sinceInput < DebounceTicks
       \/ \E t \in timers : t.left > 0
    /\ timers' = {[t EXCEPT !.left = IF t.left > 0 THEN t.left - 1 ELSE 0] :
                     t \in timers}
    /\ sinceInput' = IF sinceInput < DebounceTicks THEN sinceInput + 1
                     ELSE sinceInput
    /\ UNCHANGED <<tickerInput, tickerDebounceTimer, nextTimer, entered, lastFired>>
    /\ UNCHANGED <<marketVars, selectVars, quoteVars, engineVars, calcVars,
                   chartVars, finderVars, fetchVars, ieee>>

\* A pending timer is due and its callback () => fetchMarketData(ticker) runs.
TimerFires ==
    /\ MarketCalls < MaxFetches
    /\ \E t \in timers :
          /\ t.left = 0
          /\ timers' = timers \ {t}
          /\ lastFired' = [any |-> TRUE, ticker |-> t.ticker,
                           latest |-> trimUpper[tickerInput],
                           age |-> sinceInput, entered |-> entered]
          /\ fetchMarketData(t.ticker)
    /\ UNCHANGED <<tickerInput, tickerDebounceTimer, nextTimer, sinceInput, entered>>
    /\ UNCHANGED <<fetchLog, currentStockPrice, expirationDates, expirationSelect,
                   fetchStatus, stockShown>>
    /\ UNCHANGED <<selectVars, quoteVars, engineVars, calcVars, chartVars,
                   finderVars, fetchVars, ieee>>

\* The keypress listener of the ticker element, for the Enter key.
PressEnter ==
    /\ MarketCalls < MaxFetches
    /\ timers' = clearTimeout(timers, tickerDebounceTimer)
    /\ entered' = TRUE
    /\ fetchMarketData("")
    /\ UNCHANGED <<tickerInput, tickerDebounceTimer, nextTimer, sinceInput, lastFired>>
    /\ UNCHANGED <<fetchLog, currentStockPrice, expirationDates, expirationSelect,
                   fetchStatus, stockShown>>
    /\ UNCHANGED <<selectVars, quoteVars, engineVars, calcVars, chartVars,
                   finderVars, fetchVars, ieee>>

\* What the service answers to a stock-quote request.
StockResponses(ticker) ==
    {[ok |-> FALSE, price |-> 0]} \cup
    (IF ticker \in Tickers THEN {[ok |-> TRUE, price |-> StockPriceOf[ticker]]}
     ELSE {})

\* What the service answers to an expirations request.
ExpirationResponses(ticker) ==
    {[ok |-> FALSE, expirations |-> <<>>]} \cup
    (IF ticker \in Tickers
        THEN {[ok |-> TRUE, expirations |-> ExpirationsOf[ticker]]}
     ELSE {})

\* fetchMarketData resumes after await fetchStockQuote(ticker).
StockQuoteResponse ==
    /\ \E i \in DOMAIN inflight :
          /\ inflight[i].fn = "fetchMarketData"
          /\ inflight[i].pc = "fetchStockQuote"
          /\ \E resp \in StockResponses(inflight[i].ticker) :
                IF resp.ok
                   THEN /\ currentStockPrice' = resp.price
                        /\ stockShown' = [price |-> [t |-> "$",
                                                     v |-> ToFixed(resp.price, 2)],
                                          name |-> inflight[i].ticker]
                        /\ inflight' = [inflight EXCEPT ![i].pc = "fetchExpirations"]
                        /\ UNCHANGED <<fetchStatus, fetchLog>>
                   ELSE /\ fetchStatus' = StatusError
                        /\ inflight' = Remove(inflight, i)
                        /\ fetchLog' = Append(fetchLog,
                                              [ticker |-> inflight[i].ticker,
                                               ok |-> FALSE])
                        /\ UNCHANGED <<currentStockPrice, stockShown>>
    /\ UNCHANGED <<currentTicker, expirationDates, expirationSelect>>
    /\ UNCHANGED <<tickerVars, selectVars, quoteVars, engineVars, calcVars,
                   chartVars, finderVars, fetchVars, ieee>>

\* fetchExpirations(ticker) resumes after its request, and fetchMarketData ends.
ExpirationsResponse ==
    /\ \E i \in DOMAIN inflight :
          /\ inflight[i].fn = "fetchMarketData"
          /\ inflight[i].pc = "fetchExpirations"
          /\ \E resp \in ExpirationResponses(inflight[i].ticker) :
                /\ IF resp.ok
                      THEN /\ expirationDates' = resp.expirations
                           /\ expirationSelect' = [options |-> resp.expirations,
                                                   value |-> ""]
                           /\ fetchStatus' = StatusLoaded(inflight[i].ticker)
                      ELSE /\ fetchStatus' = StatusError
                           /\ UNCHANGED <<expirationDates, expirationSelect>>
                /\ fetchLog' = Append(fetchLog, [ticker |-> inflight[i].ticker,
                                                  ok |-> resp.ok])
          /\ inflight' = Remove(inflight, i)
    /\ UNCHANGED <<currentTicker, currentStockPrice, stockShown>>
    /\ UNCHANGED <<tickerVars, selectVars, quoteVars, engineVars, calcVars,
                   chartVars, finderVars, fetchVars, ieee>>

(***************************************************************************)
(* Yield finder: the expiration and strike selection and fetchOptionQuote  *)
(***************************************************************************)
\* The value parseFloat gives for text that is no number.
NaNValue == 0 - 1

\* !v for a number v.
Falsy(v) == v = 0 \/ v = NaNValue

\* The strikes the service lists per symbol, in the order it sends them.
StrikesOf ==
    [t \in Tickers |->
        IF t = "A" THEN <<105 * Unit, 95 * Unit, 110 * Unit>>
        ELSE <<45 * Unit, 55 * Unit, 50 * Unit>>]

\* calculateDaysToExpiry(expirationDate) on the day of the session.
calculateDaysToExpiry ==
    [e \in {"e1", "e2"} |-> IF e = "e1" THEN 30 * Unit ELSE Unit]

IsSorted(s) == \A i \in 1..(Len(s) - 1) : s[i] <= s[i + 1]

Count(s, v) == Cardinality({i \in DOMAIN s : s[i] = v})

\* strikesArray.sort((a, b) => a - b)
SortAscending(s) ==
    CHOOSE t \in [1..Len(s) -> Range(s)] :
       /\ IsSorted(t)
       /\ \A v \in Range(s) : Count(t, v) = Count(s, v)

atmStrike_lastNearest(strikes, S) ==
    LET nearest[i \in 1..Len(strikes)] ==
            IF i = 1 THEN strikes[1]
            ELSE IF Abs(strikes[i] - S) <= Abs(nearest[i - 1] - S)
                    THEN strikes[i]
                    ELSE nearest[i - 1]
    IN  nearest[Len(strikes)]

\* strikePrices.reduce((prev, curr) => |curr - S| < |prev - S| ? curr : prev)
atmStrike(strikes, S) ==
    LET nearest[i \in 1..Len(strikes)] ==
            IF i = 1 THEN strikes[1]
            ELSE IF Abs(strikes[i] - S) < Abs(nearest[i - 1] - S)
                    THEN strikes[i]
                    ELSE nearest[i - 1]
    IN  nearest[Len(strikes)]

NoStrikeSelect == [options |-> <<>>, value |-> NaNValue]

QuoteHidden ==
    [days |-> "", quick |-> "", bid |-> Blank, ask |-> Blank, mid |-> Blank]

\* The part of fetchStrikes(ticker, expiration) that runs before its await.
fetchStrikes(ticker, expiration, caller) ==
    Task("fetchStrikes", "strikes", ticker, expiration, currentOptionType, 0, caller)

\* The part of onStrikeChange() that runs before its await: value is the
\* number in strike-select, tasks the calls in flight when it starts.
onStrikeChange(value, tasks) ==
    /\ currentStrike' = value
    /\ IF Falsy(value) \/ currentExpiration = "" \/ currentTicker = ""
          THEN /\ quoteShown' = [quoteShown EXCEPT !.quick = ""]
               /\ inflight' = tasks
          ELSE /\ quoteShown' = [quoteShown EXCEPT !.quick = "..."]
               /\ inflight' = Append(tasks,
                                     Task("onStrikeChange", "quick", currentTicker,
                                          currentExpiration, currentOptionType,
                                          value, ""))

\* The tickers the user loads while selecting.
EnteredTickers == {"a", " b "}

\* The user types a ticker and presses Enter before the debounce delay has
\* passed: the timer the input events started is cleared by the keypress
\* listener, which calls fetchMarketData().
TickerEntered ==
    /\ timers = {}
    /\ MarketCalls < MaxFetches
    /\ inflight = <<>>
    /\ \E raw \in EnteredTickers :
          /\ tickerInput' = raw
          /\ \E ticker \in {trimUpper[raw]} :
                IF ticker = ""
                   THEN UNCHANGED <<currentTicker, inflight>>
                   ELSE /\ currentTicker' = ticker
                        /\ inflight' = Append(inflight,
                                              Task("fetchMarketData",
                                                   "fetchStockQuote", ticker, "",
                                                   "", 0, ""))
    /\ sinceInput' = 0
    /\ entered' = TRUE
    /\ UNCHANGED <<timers, tickerDebounceTimer, nextTimer, lastFired>>
    /\ UNCHANGED <<fetchLog, currentStockPrice, expirationDates, expirationSelect,
                   fetchStatus, stockShown>>
    /\ UNCHANGED <<selectVars, quoteVars, engineVars, calcVars, chartVars,
                   finderVars, fetchVars, ieee>>

\* The user picks a type button of the yield finder: setOptionType(type).
setOptionTypeFinder ==
    /\ \E type \in Kinds :
          /\ currentOptionType' = type
          /\ IF currentExpiration # "" /\ currentTicker # ""
                THEN /\ inflight = <<>>
                     /\ inflight' = Append(inflight,
                                           Task("fetchStrikes", "strikes",
                                                currentTicker, currentExpiration,
                                                type, 0, "setOptionType"))
                ELSE UNCHANGED inflight
    /\ UNCHANGED <<currentExpiration, currentDaysToMaturity, strikePrices,
                   strikeSelect, strikesDone>>
    /\ UNCHANGED <<fetchLog, currentTicker, currentStockPrice, expirationDates,
                   expirationSelect, fetchStatus, stockShown>>
    /\ UNCHANGED <<tickerVars, quoteVars, engineVars, calcVars, chartVars,
                   finderVars, fetchVars, ieee>>

\* The user picks an entry of expiration-select: onExpirationChange().
onExpirationChange ==
    /\ \E value \in Range(expirationSelect.options) \cup {""} :
          /\ expirationSelect' = [expirationSelect EXCEPT !.value = value]
          /\ currentExpiration' = value
          /\ IF value = ""
                THEN /\ quoteShown' = [quoteShown EXCEPT !.days = "--"]
                     /\ UNCHANGED <<currentDaysToMaturity, inflight>>
                ELSE /\ currentDaysToMaturity' = calculateDaysToExpiry[value]
                     /\ quoteShown' = [quoteShown EXCEPT !.days = "days"]
                     /\ IF currentTicker # ""
                           THEN /\ inflight = <<>>
                                /\ inflight' =
                                      Append(inflight,
                                             fetchStrikes(currentTicker, value,
                                                          "onExpirationChange"))
                           ELSE UNCHANGED inflight
    /\ UNCHANGED <<currentOptionType, strikePrices, strikeSelect, strikesDone>>
    /\ UNCHANGED <<fetchLog, currentTicker, currentStockPrice, expirationDates,
                   fetchStatus, stockShown>>
    /\ UNCHANGED <<optionSymbol, finderAlerted, clipboard, lastQuote>>
    /\ UNCHANGED <<tickerVars, engineVars, calcVars, chartVars, finderVars,
                   fetchVars, ieee>>

\* What the service answers to a strikes request: a failure, an answer
\* without strikes, or the strikes of the symbol for one of its expirations.
StrikeResponses(ticker, expiration) ==
    {[ok |-> FALSE, strikes |-> <<>>], [ok |-> TRUE, strikes |-> <<>>]} \cup
    (IF ticker \in Tickers /\ expiration \in Range(ExpirationsOf[ticker])
        THEN {[ok |-> TRUE, strikes |-> StrikesOf[ticker]]}
     ELSE {})

\* fetchStrikes resumes after its request; then its caller resumes:
\* setOptionType goes on to onStrikeChange() when currentStrike is set.
StrikesResponse ==
    /\ \E i \in DOMAIN inflight :
          /\ inflight[i].fn = "fetchStrikes"
          /\ \E resp \in StrikeResponses(inflight[i].ticker,
                                          inflight[i].expiration) :
             \E loaded \in {resp.ok /\ resp.strikes # <<>>} :
             \E sorted \in {IF loaded THEN SortAscending(resp.strikes)
                            ELSE strikePrices} :
             \E atm \in {IF loaded THEN atmStrike(sorted, currentStockPrice)
                         ELSE currentStrike} :
                /\ strikePrices' = sorted
                /\ strikeSelect' = IF loaded
                                      THEN [options |-> sorted, value |-> atm]
                                      ELSE strikeSelect
                /\ strikesDone' =
                      [called |-> TRUE, turn |-> ~strikesDone.turn,
                       loaded |-> loaded, thrown |-> FALSE]
                /\ IF inflight[i].caller = "setOptionType" /\ ~Falsy(atm)
                      THEN onStrikeChange(strikeSelect'.value, Remove(inflight, i))
                      ELSE /\ currentStrike' = atm
                           /\ inflight' = Remove(inflight, i)
                           /\ UNCHANGED quoteShown
    /\ UNCHANGED <<currentOptionType, currentExpiration, currentDaysToMaturity>>
    /\ UNCHANGED <<fetchLog, currentTicker, currentStockPrice, expirationDates,
                   expirationSelect, fetchStatus, stockShown>>
    /\ UNCHANGED <<optionSymbol, finderAlerted, clipboard, lastQuote>>
    /\ UNCHANGED <<currentMidPrice, yieldContracts, finderShown, finderClass,
                   finderValues, finderCall>>
    /\ UNCHANGED <<tickerVars, engineVars, calcVars, chartVars, fetchVars, ieee>>

\* The user picks an entry of strike-select: onStrikeChange().
StrikeSelected ==
    /\ inflight = <<>>
    /\ \E value \in Range(strikeSelect.options) \cup {NaNValue} :
          /\ strikeSelect' = [strikeSelect EXCEPT !.value = value]
          /\ onStrikeChange(value, inflight)
    /\ UNCHANGED <<currentOptionType, currentExpiration, currentDaysToMaturity,
                   strikePrices, strikesDone>>
    /\ UNCHANGED <<fetchLog, currentTicker, currentStockPrice, expirationDates,
                   expirationSelect, fetchStatus, stockShown>>
    /\ UNCHANGED <<optionSymbol, finderAlerted, clipboard, lastQuote>>
    /\ UNCHANGED <<currentMidPrice, yieldContracts, finderShown, finderClass,
                   finderValues, finderCall>>
    /\ UNCHANGED <<tickerVars, engineVars, calcVars, chartVars, fetchVars, ieee>>

\* onStrikeChange resumes after its quick-quote requests.
QuickQuoteResponse ==
    /\ \E i \in DOMAIN inflight :
          /\ inflight[i].fn = "onStrikeChange"
          /\ \E ok \in BOOLEAN :
                quoteShown' = [quoteShown EXCEPT !.quick = IF ok THEN "$" ELSE "--"]
          /\ inflight' = Remove(inflight, i)
    /\ UNCHANGED <<fetchLog, currentTicker, currentStockPrice, expirationDates,
                   expirationSelect, fetchStatus, stockShown>>
    /\ UNCHANGED <<optionSymbol, finderAlerted, clipboard, lastQuote>>
    /\ UNCHANGED <<tickerVars, selectVars, engineVars, calcVars, chartVars,
                   finderVars, fetchVars, ieee>>

StatusQuoteFetching ==
    [text |-> "Fetching option quote...", ticker |-> "",
     class |-> "status-message loading"]

fetchOptionQuote_strikeUnchecked ==
    IF currentTicker = "" \/ currentExpiration = ""
       THEN /\ finderAlerted' = TRUE
            /\ UNCHANGED <<fetchStatus, optionSymbol, inflight>>
       ELSE /\ finderAlerted' = FALSE
            /\ fetchStatus' = StatusQuoteFetching
            /\ optionSymbol' = [built |-> TRUE, ticker |-> currentTicker,
                                expiration |-> currentExpiration,
                                type |-> currentOptionType,
                                strike |-> currentStrike]
            /\ inflight' = Append(inflight,
                                  Task("fetchOptionQuote", "quote", currentTicker,
                                       currentExpiration, currentOptionType,
                                       currentStrike, ""))

\* The part of fetchOptionQuote() that runs before its await.
fetchOptionQuote ==
    IF currentTicker = "" \/ currentExpiration = "" \/ Falsy(currentStrike)
       THEN /\ finderAlerted' = TRUE
            /\ UNCHANGED <<fetchStatus, optionSymbol, inflight>>
       ELSE /\ finderAlerted' = FALSE
            /\ fetchStatus' = StatusQuoteFetching
            /\ optionSymbol' = [built |-> TRUE, ticker |-> currentTicker,
                                expiration |-> currentExpiration,
                                type |-> currentOptionType,
                                strike |-> currentStrike]
            /\ inflight' = Append(inflight,
                                  Task("fetchOptionQuote", "quote", currentTicker,
                                       currentExpiration, currentOptionType,
                                       currentStrike, ""))

\* The user clicks the quote button.
QuoteClicked ==
    /\ inflight = <<>>
    /\ fetchOptionQuote
    /\ UNCHANGED <<fetchLog, currentTicker, currentStockPrice, expirationDates,
                   expirationSelect, stockShown>>
    /\ UNCHANGED <<quoteShown, clipboard, lastQuote>>
    /\ UNCHANGED <<tickerVars, selectVars, engineVars, calcVars, chartVars,
                   finderVars, fetchVars, ieee>>

\* fetchOptionQuote resumes after a request that failed.
OptionQuoteFails ==
    /\ \E i \in DOMAIN inflight :
          /\ inflight[i].fn = "fetchOptionQuote"
          /\ inflight' = Remove(inflight, i)
    /\ fetchStatus' = StatusError
    /\ optionSymbol' = NoSymbol
    /\ UNCHANGED <<fetchLog, currentTicker, currentStockPrice, expirationDates,
                   expirationSelect, stockShown>>
    /\ UNCHANGED <<quoteShown, finderAlerted, clipboard, lastQuote>>
    /\ UNCHANGED <<tickerVars, selectVars, engineVars, calcVars, chartVars,
                   finderVars, fetchVars, ieee>>

(***************************************************************************)
(* Yield finder: the option quote, its yield analysis and the order text   *)
(***************************************************************************)
\* What the service quotes for the contract at strike k.
QuoteOf(k) ==
    IF k < 100 * Unit
       THEN [strike |-> k, bid |-> 24000, ask |-> 26000, iv |-> 3000]
       ELSE [strike |-> k, bid |-> 70000, ask |-> 80000, iv |-> 0]

\* What the service answers to the direct quote request for strike k: a
\* response that is not ok, a status other than 'ok', or the quote.
DirectResponses(k) ==
    {[ok |-> FALSE, s |-> "", quote |-> QuoteOf(k)],
     [ok |-> TRUE, s |-> "error", quote |-> QuoteOf(k)],
     [ok |-> TRUE, s |-> "ok", quote |-> QuoteOf(k)]}

\* What the service answers to the chain request for strike k: a failure, or
\* a chain, with or without its strike column, whose entries are the quotes
\* of the strikes listed.
ChainResponses(k) ==
    {[ok |-> FALSE, hasStrike |-> FALSE, entries |-> <<>>]} \cup
    {[ok |-> TRUE, hasStrike |-> h, entries |-> e] :
        h \in BOOLEAN,
        e \in {<<QuoteOf(k + 50)>>, <<QuoteOf(k + 5 * Unit), QuoteOf(k)>>,
               <<QuoteOf(k + 5 * Unit)>>}}

\* data.strike.findIndex(s => Math.abs(s - currentStrike) < 0.01), counted
\* from 1; 0 when no entry matches (the code's -1).
findIndex(entries, k) ==
    IF \E i \in DOMAIN entries : Abs(entries[i].strike - k) < Unit \div 100
       THEN CHOOSE i \in DOMAIN entries :
               /\ Abs(entries[i].strike - k) < Unit \div 100
               /\ \A j \in 1..(i - 1) : ~(Abs(entries[j].strike - k) < Unit \div 100)
       ELSE 0

\* The record fetchOptionData returns from the direct answer.
DirectQuote(quote, k) ==
    [returned |-> TRUE, from |-> "direct", defined |-> TRUE, want |-> k,
     strike |-> quote.strike, bid |-> quote.bid, ask |-> quote.ask,
     iv |-> quote.iv]

\* The record fetchOptionFromChain returns from a chain answer: the entry at
\* idx, whose fields are undefined when idx is -1.
fetchOptionFromChain(chain, k) ==
    LET idx == IF chain.hasStrike THEN findIndex(chain.entries, k) ELSE 1
    IN  IF idx = 0
           THEN [returned |-> TRUE, from |-> "chain", defined |-> FALSE,
                 want |-> k, strike |-> NaNValue, bid |-> 0, ask |-> 0, iv |-> 0]
           ELSE [returned |-> TRUE, from |-> "chain", defined |-> TRUE,
                 want |-> k, strike |-> chain.entries[idx].strike,
                 bid |-> chain.entries[idx].bid, ask |-> chain.entries[idx].ask,
                 iv |-> chain.entries[idx].iv]

StatusQuoteLoaded(ticker) ==
    [text |-> "Quote loaded for ", ticker |-> ticker,
     class |-> "status-message success"]

\* fetchOptionQuote resumes with the record fetchOptionData returned.
quoteLoaded(i, optionData) ==
    \E bid \in {IF optionData.defined THEN optionData.bid ELSE 0} :
    \E ask \in {IF optionData.defined THEN optionData.ask ELSE 0} :
    \E mid \in {DivInt[bid + ask, 2]} :
    \E iv \in {IF optionData.defined /\ optionData.iv # 0 THEN optionData.iv
               ELSE 2500} :
    \E T \in {DaysToYears(currentDaysToMaturity)} :
       /\ lastQuote' = optionData
       /\ quoteShown' = [quoteShown EXCEPT !.bid = formatCurrency(bid),
                                           !.ask = formatCurrency(ask),
                                           !.mid = formatCurrency(mid)]
       /\ calculateYieldAnalysisFinder(currentStockPrice, currentStrike,
                                       currentDaysToMaturity, mid,
                                       currentOptionType)
       /\ PLChart_update(currentOptionType, currentStockPrice, currentStrike, T,
                         525, iv, 0, bid, 1)
       /\ fetchStatus' = StatusQuoteLoaded(inflight[i].ticker)
       /\ optionSymbol' = NoSymbol
       /\ inflight' = Remove(inflight, i)

\* fetchOptionQuote ends in its catch block.
quoteFailed(i) ==
    /\ fetchStatus' = StatusError
    /\ optionSymbol' = NoSymbol
    /\ inflight' = Remove(inflight, i)
    /\ UNCHANGED <<quoteShown, lastQuote, chartVars, currentMidPrice, finderShown,
                   finderClass, finderValues, finderCall>>

\* fetchOptionData resumes after the direct request.
DirectResponse ==
    /\ \E i \in DOMAIN inflight :
          /\ inflight[i].fn = "fetchOptionQuote"
          /\ inflight[i].pc = "quote"
          /\ \E resp \in DirectResponses(inflight[i].strike) :
                IF ~resp.ok
                   THEN /\ inflight' = [inflight EXCEPT ![i].pc = "chain"]
                        /\ UNCHANGED <<fetchStatus, optionSymbol, quoteShown,
                                       lastQuote, chartVars, currentMidPrice,
                                       finderShown, finderClass, finderValues,
                                       finderCall>>
                   ELSE IF resp.s # "ok"
                           THEN quoteFailed(i)
                           ELSE quoteLoaded(i, DirectQuote(resp.quote,
                                                           inflight[i].strike))
    /\ UNCHANGED <<fetchLog, currentTicker, currentStockPrice, expirationDates,
                   expirationSelect, stockShown>>
    /\ UNCHANGED <<finderAlerted, clipboard, currentStrike, yieldContracts>>
    /\ UNCHANGED <<tickerVars, selectVars, engineVars, calcVars, fetchVars, ieee>>

\* fetchOptionFromChain resumes after the chain request.
ChainResponse ==
    /\ \E i \in DOMAIN inflight :
          /\ inflight[i].fn = "fetchOptionQuote"
          /\ inflight[i].pc = "chain"
          /\ \E resp \in ChainResponses(currentStrike) :
                IF ~resp.ok
                   THEN quoteFailed(i)
                   ELSE quoteLoaded(i, fetchOptionFromChain(resp, currentStrike))
    /\ UNCHANGED <<fetchLog, currentTicker, currentStockPrice, expirationDates,
                   expirationSelect, stockShown>>
    /\ UNCHANGED <<finderAlerted, clipboard, currentStrike, yieldContracts>>
    /\ UNCHANGED <<tickerVars, selectVars, engineVars, calcVars, fetchVars, ieee>>

\* copyOrderToClipboard(): the total premium of the order text.
copyOrderToClipboard ==
    /\ IF currentTicker = "" \/ currentExpiration = "" \/ Falsy(currentStrike)
          THEN UNCHANGED clipboard
          ELSE \E contracts \in {IF yieldContracts.nan \/ yieldContracts.v = 0
                                    THEN 1 ELSE yieldContracts.v} :
                  clipboard' = [written |-> TRUE, contracts |-> contracts,
                                mid |-> quoteShown.mid,
                                totalPremium |->
                                   formatCurrency(contracts * 100 * currentMidPrice)]
    /\ UNCHANGED <<quoteShown, optionSymbol, finderAlerted, lastQuote>>
    /\ UNCHANGED <<tickerVars, marketVars, selectVars, engineVars, calcVars,
                   chartVars, finderVars, fetchVars, ieee>>

(***************************************************************************)
(* Calculator: fetchMarketData and fetchOptionsChain (src/app.js)          *)
(***************************************************************************)
MaxCalcFlight == 1

ButtonReady == [disabled |-> FALSE, text |-> "Fetch Data"]

ButtonLoading == [disabled |-> TRUE, text |-> "Loading..."]

StatusNoTicker ==
    [text |-> "Please enter a ticker symbol", ticker |-> "",
     class |-> "status-message error"]

StatusCalcFetching ==
    [text |-> "Fetching market data...", ticker |-> "",
     class |-> "status-message loading"]

\* The implied volatilities a chain answer lists.
ChainIvs == {<<>>, <<2000, 4000>>, <<0, 6 * Unit, 3000>>}

Sum(s) ==
    LET partial[i \in 0..Len(s)] == IF i = 0 THEN 0 ELSE partial[i - 1] + s[i]
    IN  partial[Len(s)]

\* The average of the values above 0 and below 5, or 0.25 without any.
avgIV(ivs) ==
    LET kept == SelectSeq(ivs, LAMBDA iv : iv > 0 /\ iv < 5 * Unit)
    IN  IF Len(kept) > 0 THEN Div[Sum(kept), Len(kept) * Unit] ELSE 2500

\* A value written to an input element with toFixed(digits) and parsed again.
Entered(value, digits) ==
    Num(ToFixed(value, digits) * (IF digits = 2 THEN 100 ELSE 1000))

\* Math.round(price / 5) * 5
DefaultStrike(stockPrice) == ((2 * stockPrice + 5 * Unit) \div (10 * Unit)) * 5 * Unit

fetchEnded_onSuccessOnly(i, status, quoteOk, chainOk) ==
    /\ calcStatus' = status
    /\ fetchBtn' = IF quoteOk THEN ButtonReady ELSE fetchBtn
    /\ calcFlight' = Remove(calcFlight, i)
    /\ calcOutcome' = [done |-> TRUE, turn |-> ~calcOutcome.turn,
                       quote |-> quoteOk, chain |-> chainOk]

\* fetchMarketData of the calculator ends: the status of its try or catch
\* block, then its finally block.
fetchEnded(i, status, quoteOk, chainOk) ==
    /\ calcStatus' = status
    /\ fetchBtn' = ButtonReady
    /\ calcFlight' = Remove(calcFlight, i)
    /\ calcOutcome' = [done |-> TRUE, turn |-> ~calcOutcome.turn,
                       quote |-> quoteOk, chain |-> chainOk]

\* The user edits the ticker input of the calculator.
CalcTickerTyped ==
    /\ \E raw \in RawTickers : calcTicker' = raw
    /\ calcTicker' # calcTicker
    /\ UNCHANGED <<fetchBtn, calcStatus, calcFlight, calcOutcome>>
    /\ UNCHANGED <<engineVars, calcVars, chartVars, finderVars, netVars, ieee>>

\* fetchMarketData() of the calculator, from the button or the Enter key, up
\* to its first await.
fetchMarketDataCalc ==
    /\ Len(calcFlight) < MaxCalcFlight
    /\ \E ticker \in {trimUpper[calcTicker]} :
          IF ticker = ""
             THEN /\ calcStatus' = StatusNoTicker
                  /\ UNCHANGED <<fetchBtn, calcFlight>>
             ELSE /\ fetchBtn' = ButtonLoading
                  /\ calcStatus' = StatusCalcFetching
                  /\ calcFlight' = Append(calcFlight,
                                          [ticker |-> ticker, pc |-> "fetchStockQuote",
                                           price |-> 0])
    /\ UNCHANGED <<calcTicker, calcOutcome>>
    /\ UNCHANGED <<engineVars, calcVars, chartVars, finderVars, netVars, ieee>>

\* fetchMarketData resumes after await fetchStockQuote(ticker).
CalcStockResponse ==
    /\ \E i \in DOMAIN calcFlight :
          /\ calcFlight[i].pc = "fetchStockQuote"
          /\ \E resp \in StockResponses(calcFlight[i].ticker) :
                IF resp.ok
                   THEN /\ fields' =
                             [fields EXCEPT
                                 !.S = Entered(resp.price, 2),
                                 !.K = Entered(DefaultStrike(resp.price), 2),
                                 !.days = IF fields.days.nan THEN Num(30 * Unit)
                                          ELSE fields.days]
                        /\ calcFlight' = [calcFlight EXCEPT
                                             ![i].pc = "expirations",
                                             ![i].price = resp.price]
                        /\ UNCHANGED <<fetchBtn, calcStatus, calcOutcome>>
                   ELSE /\ fetchEnded(i, StatusError, FALSE, FALSE)
                        /\ UNCHANGED fields
    /\ UNCHANGED <<calcTicker, calcType, shown, yieldShown, yieldCall, alerted,
                   yieldValues, yieldClass>>
    /\ UNCHANGED <<engineVars, chartVars, finderVars, netVars, ieee>>

\* fetchOptionsChain resumes after its expirations request.
CalcExpirationsResponse ==
    /\ \E i \in DOMAIN calcFlight :
          /\ calcFlight[i].pc = "expirations"
          /\ \E resp \in ExpirationResponses(calcFlight[i].ticker) :
                IF resp.ok
                   THEN /\ calcFlight' = [calcFlight EXCEPT ![i].pc = "chain"]
                        /\ UNCHANGED <<fields, fetchBtn, calcStatus, calcOutcome>>
                   ELSE /\ fields' = [fields EXCEPT !.vol = Num(25 * Unit)]
                        /\ fetchEnded(i, StatusLoaded(calcFlight[i].ticker), TRUE,
                                      FALSE)
    /\ UNCHANGED <<calcTicker, calcType, shown, yieldShown, yieldCall, alerted,
                   yieldValues, yieldClass>>
    /\ UNCHANGED <<engineVars, chartVars, finderVars, netVars, ieee>>

\* fetchOptionsChain resumes after its chain request, and fetchMarketData ends.
CalcChainResponse ==
    /\ \E i \in DOMAIN calcFlight :
          /\ calcFlight[i].pc = "chain"
          /\ \/ /\ fields' = [fields EXCEPT !.vol = Num(25 * Unit)]
                /\ fetchEnded(i, StatusLoaded(calcFlight[i].ticker), TRUE, FALSE)
             \/ \E ivs \in ChainIvs :
                   /\ fields' = [fields EXCEPT !.vol = Entered(avgIV(ivs) * 100, 1)]
                   /\ fetchEnded(i, StatusLoaded(calcFlight[i].ticker), TRUE, TRUE)
    /\ UNCHANGED <<calcTicker, calcType, shown, yieldShown, yieldCall, alerted,
                   yieldValues, yieldClass>>
    /\ UNCHANGED <<engineVars, chartVars, finderVars, netVars, ieee>>

(***************************************************************************)
(* IEEE double arithmetic on the products of calculatePLData               *)
(*                                                                         *)
(* A non-negative double that is a multiple of 2^-55 is the integer        *)
(* value * 2^55, written in Limbs digits of base Base, lowest digit first. *)
(* An operation computes the exact result and rounds it to MantissaBits    *)
(* significant bits, ties to even, as the double operation does.           *)
(***************************************************************************)
Base == 2 ^ 15

Limbs == 6

MantissaBits == 53

BigZero == [i \in 1..Limbs |-> 0]

\* The integer n < Base * Base as digits.
BigOf(n) ==
    [i \in 1..Limbs |-> IF i = 1 THEN n % Base
                        ELSE IF i = 2 THEN n \div Base ELSE 0]

RECURSIVE MulCarry(_, _, _)
MulCarry(a, n, i) ==
    IF i = 0 THEN 0 ELSE (a[i] * n + MulCarry(a, n, i - 1)) \div Base

\* a * n for 0 <= n < Base.
MulSmall(a, n) ==
    [i \in 1..Limbs |-> (a[i] * n + MulCarry(a, n, i - 1)) % Base]

RECURSIVE AddCarry(_, _, _)
AddCarry(a, b, i) ==
    IF i = 0 THEN 0 ELSE (a[i] + b[i] + AddCarry(a, b, i - 1)) \div Base

AddBig(a, b) ==
    [i \in 1..Limbs |-> (a[i] + b[i] + AddCarry(a, b, i - 1)) % Base]

RECURSIVE SubBorrow(_, _, _)
SubBorrow(a, b, i) ==
    IF i = 0 THEN 0
    ELSE IF a[i] - b[i] - SubBorrow(a, b, i - 1) < 0 THEN 1 ELSE 0

\* a - b for a >= b.
SubBig(a, b) ==
    [i \in 1..Limbs |-> (a[i] - b[i] - SubBorrow(a, b, i - 1) + Base) % Base]

BigLess(a, b) ==
    \E i \in 1..Limbs :
       /\ a[i] < b[i]
       /\ \A j \in (i + 1)..Limbs : a[j] = b[j]

RECURSIVE DivRem(_, _, _)
DivRem(a, n, i) ==
    IF i > Limbs THEN 0 ELSE (DivRem(a, n, i + 1) * Base + a[i]) % n

\* a div n and a mod n for 0 < n < Base.
DivSmall(a, n) ==
    [i \in 1..Limbs |-> (DivRem(a, n, i + 1) * Base + a[i]) \div n]

ModSmall(a, n) == DivRem(a, n, 1)

\* The number of bits of a.
BitLen(a) ==
    IF a = BigZero THEN 0
    ELSE LET top == CHOOSE i \in 1..Limbs :
                       a[i] # 0 /\ \A j \in (i + 1)..Limbs : a[j] = 0
             bits == CHOOSE k \in 1..15 : 2 ^ (k - 1) <= a[top] /\ a[top] < 2 ^ k
         IN  15 * (top - 1) + bits

RECURSIVE ShiftRight(_, _)
ShiftRight(a, s) ==
    IF s = 0 THEN a
    ELSE LET k == IF s > 14 THEN 14 ELSE s
         IN  ShiftRight(DivSmall(a, 2 ^ k), s - k)

\* Whether one of the s lowest bits of a is set.
RECURSIVE Sticky(_, _)
Sticky(a, s) ==
    IF s = 0 THEN FALSE
    ELSE LET k == IF s > 14 THEN 14 ELSE s
         IN  ModSmall(a, 2 ^ k) # 0 \/ Sticky(DivSmall(a, 2 ^ k), s - k)

RECURSIVE ShiftLeft(_, _)
ShiftLeft(a, s) ==
    IF s = 0 THEN a
    ELSE LET k == IF s > 14 THEN 14 ELSE s
         IN  ShiftLeft(MulSmall(a, 2 ^ k), s - k)

\* The double nearest to the exact value a, ties to even.
RoundToDouble(a) ==
    LET s == BitLen(a) - MantissaBits
    IN  IF s <= 0 THEN a
        ELSE LET q == ShiftRight(a, s)
                 guard == ModSmall(ShiftRight(a, s - 1), 2) = 1
                 up == guard /\ (Sticky(a, s - 1) \/ ModSmall(q, 2) = 1)
             IN  ShiftLeft(IF up THEN AddBig(q, BigOf(1)) ELSE q, s)

\* The unit in the last place of the double a.
Ulp(a) ==
    IF BitLen(a) <= MantissaBits THEN BigOf(1)
    ELSE ShiftLeft(BigOf(1), BitLen(a) - MantissaBits)

\* A double with its sign.
Signed(neg, mag) == [neg |-> neg /\ mag # BigZero, mag |-> mag]

Negate(x) == Signed(~x.neg, x.mag)

\* a - b in doubles, for non-negative a and b.
FlSub(a, b) ==
    IF BigLess(a, b) THEN Signed(TRUE, RoundToDouble(SubBig(b, a)))
    ELSE Signed(FALSE, RoundToDouble(SubBig(a, b)))

\* x * n in doubles, for an integer 0 <= n < Base.
FlMulInt(x, n) == Signed(x.neg, RoundToDouble(MulSmall(x.mag, n)))

\* x <= y
SignedLeq(x, y) ==
    IF x.neg /\ ~y.neg THEN TRUE
    ELSE IF ~x.neg /\ y.neg THEN FALSE
    ELSE IF x.neg THEN ~BigLess(x.mag, y.mag)
    ELSE ~BigLess(y.mag, x.mag)

\* By how much x exceeds y: x - y when x > y, else 0.
Excess(x, y) ==
    IF SignedLeq(x, y) THEN BigZero
    ELSE IF ~x.neg /\ y.neg THEN AddBig(x.mag, y.mag)
    ELSE IF x.neg THEN SubBig(y.mag, x.mag)
    ELSE SubBig(x.mag, y.mag)

\* The doubles nearest to 0, 0.17, 1.1 and 2.49.
DoublePremiums ==
    {BigZero,
     <<30147, 14417, 2621, 174, 0, 0>>,
     <<19664, 6553, 13107, 1126, 0, 0>>,
     <<7872, 22282, 24903, 2549, 0, 0>>}

\* The strike 4.
DoubleStrike == <<0, 0, 0, 4096, 0, 0>>

\* Samples of the chart for S = 4: the first, 2, then 4 and 6.
DoublePrices ==
    {<<0, 0, 0, 2048, 0, 0>>, DoubleStrike, <<0, 0, 0, 6144, 0, 0>>}

\* The largest number of contracts of a sample computed in doubles.
MaxLots == 3

\* expiryPL of calculatePLData, in doubles.
ieeeExpiryPL(type, atPrice, K, premium, contracts, pos) ==
    LET intrinsic == IF type = "call"
                        THEN IF BigLess(K, atPrice)
                                THEN RoundToDouble(SubBig(atPrice, K)) ELSE BigZero
                        ELSE IF BigLess(atPrice, K)
                                THEN RoundToDouble(SubBig(K, atPrice)) ELSE BigZero
        net == FlSub(intrinsic, premium)
    IN  FlMulInt(IF pos = "long" THEN net ELSE Negate(net), 100 * contracts)

Unbounded == [inf |-> TRUE, v |-> Signed(FALSE, BigZero)]

Bounded(x) == [inf |-> FALSE, v |-> x]

\* premium * contractSize * contracts
premiumTotal_oneContract(premium, contracts) ==
    FlMulInt(Signed(FALSE, premium), 100)

premiumTotal(premium, contracts) ==
    FlMulInt(FlMulInt(Signed(FALSE, premium), 100), contracts)

\* (K - premium) * contractSize * contracts
strikeTotal(K, premium, contracts) ==
    FlMulInt(FlMulInt(FlSub(K, premium), 100), contracts)

\* maxProfit of calculatePLData, in doubles.
ieeeMaxProfit(type, K, premium, contracts, pos) ==
    IF pos = "short" THEN Bounded(premiumTotal(premium, contracts))
    ELSE IF type = "call" THEN Unbounded
    ELSE Bounded(strikeTotal(K, premium, contracts))

\* maxLoss of calculatePLData, in doubles.
ieeeMaxLoss(type, K, premium, contracts, pos) ==
    IF pos = "long" THEN Bounded(premiumTotal(premium, contracts))
    ELSE IF type = "call" THEN Unbounded
    ELSE Bounded(strikeTotal(K, premium, contracts))

\* calculatePLData computes one at-expiration sample and the two bounds.
SampleInDoubles ==
    /\ \E type \in Kinds, pos \in {"long", "short"}, premium \in DoublePremiums,
          contracts \in 1..MaxLots, atPrice \in DoublePrices :
          ieee' = [computed |-> TRUE, type |-> type, position |-> pos,
                   premium |-> premium, contracts |-> contracts, price |-> atPrice,
                   pl |-> ieeeExpiryPL(type, atPrice, DoubleStrike, premium,
                                       contracts, pos),
                   maxProfit |-> ieeeMaxProfit(type, DoubleStrike, premium,
                                               contracts, pos),
                   maxLoss |-> ieeeMaxLoss(type, DoubleStrike, premium,
                                           contracts, pos)]
    /\ UNCHANGED <<engineVars, calcVars, chartVars, finderVars, netVars, fetchVars>>

(***************************************************************************)
(* Specifications                                                          *)
(***************************************************************************)
EngineIdle ==
    /\ terms = [S |-> 100 * Unit, K |-> 100 * Unit, T |-> 0, r |-> 500,
                sigma |-> 2000, q |-> 0]
    /\ single = [k \in Kinds |-> NoResult]
    /\ all = [k \in Kinds |-> NoResult]

CalcLoaded ==
    /\ calcType = "call"
    /\ shown = [id \in ResultElements |-> Blank]
    /\ yieldShown = [id \in YieldElements |-> Blank]
    /\ yieldCall = NoYieldCall
    /\ alerted = FALSE
    /\ yieldValues = NoYieldValues
    /\ yieldClass = [id \in ColouredOutputs |-> {}]

FieldsBlank ==
    fields = [S |-> NaN, K |-> NaN, days |-> NaN, vol |-> Num(0),
              r |-> Num(5 * Unit), q |-> Num(0), contracts |-> Num(1)]

ChartLoaded ==
    /\ data = NoData
    /\ stats = [id \in StatElements |-> Blank]
    /\ chartCall = NoChartCall

FinderLoaded ==
    /\ currentMidPrice = 0
    /\ finderShown = [id \in FinderElements |-> Blank]
    /\ finderClass = [id \in ColouredOutputs |-> {}]
    /\ finderValues = NoYieldValues
    /\ finderCall = NoYieldCall

FinderIdle ==
    /\ FinderLoaded
    /\ currentStrike = 0
    /\ yieldContracts = Num(1)

NetIdle ==
    /\ tickerInput = ""
    /\ timers = {}
    /\ tickerDebounceTimer = 0
    /\ nextTimer = 1
    /\ sinceInput = DebounceTicks
    /\ entered = FALSE
    /\ lastFired = [any |-> FALSE]
    /\ inflight = <<>>
    /\ fetchLog = <<>>
    /\ currentTicker = ""
    /\ currentStockPrice = 0
    /\ expirationDates = <<>>
    /\ expirationSelect = NoSelect
    /\ fetchStatus = NoStatus
    /\ stockShown = [price |-> Blank, name |-> ""]
    /\ currentOptionType = "put"
    /\ currentExpiration = ""
    /\ currentDaysToMaturity = 0
    /\ strikePrices = <<>>
    /\ strikeSelect = NoStrikeSelect
    /\ strikesDone = NoStrikes
    /\ quoteShown = QuoteHidden
    /\ optionSymbol = NoSymbol
    /\ finderAlerted = FALSE
    /\ clipboard = [written |-> FALSE]
    /\ lastQuote = NoQuote

FetchIdle ==
    /\ calcTicker = ""
    /\ fetchBtn = ButtonReady
    /\ calcStatus = NoStatus
    /\ calcFlight = <<>>
    /\ calcOutcome = [done |-> FALSE, turn |-> FALSE, quote |-> FALSE,
                      chain |-> FALSE]
    /\ ieee = [computed |-> FALSE]

\* Pricing requests.
Init ==
    /\ EngineIdle
    /\ FieldsBlank
    /\ CalcLoaded
    /\ position = "long"
    /\ ChartLoaded
    /\ FinderIdle
    /\ NetIdle
    /\ FetchIdle

Next == NewRequest \/ CallEach \/ CallAll

Spec == Init /\ [][Next]_vars

\* The calculator page.
InitCalculator ==
    /\ EngineIdle
    /\ fields \in FieldDomain
    /\ CalcLoaded
    /\ position = "long"
    /\ ChartLoaded
    /\ FinderIdle
    /\ NetIdle
    /\ FetchIdle

NextCalculator == EditField \/ setOptionType \/ calculateOption

SpecCalculator == InitCalculator /\ [][NextCalculator]_vars

\* The calculator page with its chart and the position buttons.
InitCalculatorChart ==
    /\ EngineIdle
    /\ fields \in ChartFieldDomain
    /\ CalcLoaded
    /\ position = "long"
    /\ ChartLoaded
    /\ FinderIdle
    /\ NetIdle
    /\ FetchIdle

NextCalculatorChart == setOptionType \/ calculateOption \/ setPosition

SpecCalculatorChart == InitCalculatorChart /\ [][NextCalculatorChart]_vars

\* The yield analyses of the two pages, on the premiums of YieldInputs.
InitYield ==
    /\ EngineIdle
    /\ FieldsBlank
    /\ CalcLoaded
    /\ position = "long"
    /\ ChartLoaded
    /\ FinderLoaded
    /\ NetIdle
    /\ FetchIdle
    /\ currentStrike = 100 * Unit
    /\ yieldContracts \in {NaN, Num(2)}

NextYield == CalculatorAnalysis \/ FinderAnalysis

SpecYield == InitYield /\ [][NextYield]_vars

\* The chart object, on the arguments of ChartInputs.  PLChart.position is
\* 'long' in chart.js and set to 'short' when the yield finder starts.
InitChart ==
    /\ EngineIdle
    /\ FieldsBlank
    /\ CalcLoaded
    /\ position \in {"long", "short"}
    /\ ChartLoaded
    /\ FinderIdle
    /\ NetIdle
    /\ FetchIdle

NextChart == Update \/ SetPosition

SpecChart == InitChart /\ [][NextChart]_vars

\* The yield-finder page: the ticker input, the clock and the market-data service.
InitTicker ==
    /\ EngineIdle
    /\ FieldsBlank
    /\ CalcLoaded
    /\ position = "short"
    /\ ChartLoaded
    /\ FinderIdle
    /\ NetIdle
    /\ FetchIdle

NextTicker ==
    \/ TickerInput
    \/ Tick
    \/ TimerFires
    \/ PressEnter
    \/ StockQuoteResponse
    \/ ExpirationsResponse

SpecTicker == InitTicker /\ [][NextTicker]_vars

\* The yield-finder page: loading a ticker, choosing expiration, strike and
\* type, and asking for the option quote.  The user acts when no call awaits
\* an answer (SpecTicker covers calls that overlap), and the service declines
\* the option quote (SpecQuote covers its answers).
InitSelect ==
    /\ EngineIdle
    /\ FieldsBlank
    /\ CalcLoaded
    /\ position = "short"
    /\ ChartLoaded
    /\ FinderIdle
    /\ NetIdle
    /\ FetchIdle

NextSelect ==
    \/ TickerEntered
    \/ StockQuoteResponse
    \/ ExpirationsResponse
    \/ onExpirationChange
    \/ setOptionTypeFinder
    \/ StrikesResponse
    \/ StrikeSelected
    \/ QuickQuoteResponse
    \/ QuoteClicked
    \/ OptionQuoteFails

SpecSelect == InitSelect /\ [][NextSelect]_vars

\* The yield-finder page with an option chosen: ticker A at 100 is loaded and
\* its expiration e1 and the strike 95 are selected, as SpecSelect reaches it.
InitQuote ==
    /\ EngineIdle
    /\ FieldsBlank
    /\ CalcLoaded
    /\ position = "short"
    /\ ChartLoaded
    /\ FinderLoaded
    /\ currentStrike = 95 * Unit
    /\ yieldContracts \in {NaN, Num(2)}
    /\ FetchIdle
    /\ tickerInput = "a"
    /\ timers = {}
    /\ tickerDebounceTimer = 0
    /\ nextTimer = 1
    /\ sinceInput = 0
    /\ entered = TRUE
    /\ lastFired = [any |-> FALSE]
    /\ inflight = <<>>
    /\ fetchLog = <<[ticker |-> "A", ok |-> TRUE]>>
    /\ currentTicker = "A"
    /\ currentStockPrice = StockPriceOf["A"]
    /\ expirationDates = ExpirationsOf["A"]
    /\ expirationSelect = [options |-> ExpirationsOf["A"], value |-> "e1"]
    /\ fetchStatus = StatusLoaded("A")
    /\ stockShown = [price |-> [t |-> "$", v |-> ToFixed(StockPriceOf["A"], 2)],
                     name |-> "A"]
    /\ currentOptionType = "put"
    /\ currentExpiration = "e1"
    /\ currentDaysToMaturity = calculateDaysToExpiry["e1"]
    /\ strikePrices = SortAscending(StrikesOf["A"])
    /\ strikeSelect = [options |-> SortAscending(StrikesOf["A"]),
                       value |-> 95 * Unit]
    /\ strikesDone = [called |-> TRUE, turn |-> TRUE, loaded |-> TRUE,
                      thrown |-> FALSE]
    /\ quoteShown = [QuoteHidden EXCEPT !.days = "days"]
    /\ optionSymbol = NoSymbol
    /\ finderAlerted = FALSE
    /\ clipboard = [written |-> FALSE]
    /\ lastQuote = NoQuote

NextQuote ==
    \/ QuoteClicked
    \/ DirectResponse
    \/ ChainResponse
    \/ copyOrderToClipboard

SpecQuote == InitQuote /\ [][NextQuote]_vars

\* The calculator page and the market-data service.  Every request is
\* answered or fails in the end: the responses are weakly fair.
InitFetch ==
    /\ EngineIdle
    /\ fields \in {f \in FieldDomain :
                      /\ f.S = NaN /\ f.K = NaN /\ f.vol = Num(0)
                      /\ f.days \in {NaN, Num(Unit)}}
    /\ CalcLoaded
    /\ position = "long"
    /\ ChartLoaded
    /\ FinderIdle
    /\ NetIdle
    /\ FetchIdle

NextFetch ==
    \/ CalcTickerTyped
    \/ fetchMarketDataCalc
    \/ CalcStockResponse
    \/ CalcExpirationsResponse
    \/ CalcChainResponse

SpecFetch ==
    /\ InitFetch
    /\ [][NextFetch]_vars
    /\ WF_vars(CalcStockResponse)
    /\ WF_vars(CalcExpirationsResponse)
    /\ WF_vars(CalcChainResponse)

\* calculatePLData computed in doubles, sample by sample.
InitRounding ==
    /\ EngineIdle
    /\ FieldsBlank
    /\ CalcLoaded
    /\ position = "long"
    /\ ChartLoaded
    /\ FinderIdle
    /\ NetIdle
    /\ FetchIdle

NextRounding == SampleInDoubles

SpecRounding == InitRounding /\ [][NextRounding]_vars

(***************************************************************************)
(* Claims about the pricing engine (specification Spec)                    *)
(***************************************************************************)
\* Valid terms are S > 0, K > 0, T >= 0 and sigma > 0 when T > 0.
ValidTerms ==
    /\ terms.S > 0 /\ terms.K > 0 /\ terms.T >= 0
    /\ terms.T > 0 => terms.sigma > 0

\* C1: at T = 0, for S > 0 and K > 0, price returns exactly the intrinsic
\* value: max(0, S - K) for a call, max(0, K - S) for a put, which is what
\* intrinsicValue returns.
C1_PriceAtExpiryIsIntrinsic ==
    \A k \in Kinds :
        (single[k].done /\ terms.T = 0 /\ terms.S > 0 /\ terms.K > 0) =>
            /\ single[k].price =
                  (IF k = "call"
                   THEN (IF terms.S - terms.K > 0 THEN terms.S - terms.K ELSE 0)
                   ELSE (IF terms.K - terms.S > 0 THEN terms.K - terms.S ELSE 0))
            /\ single[k].price = intrinsicValue(k, terms.S, terms.K)

C1_Witness ==
    /\ single["call"].done /\ single["put"].done
    /\ terms.T = 0 /\ terms.S > terms.K /\ terms.K > 0
    /\ single["call"].price > 0 /\ single["put"].price = 0

\* C2: every engine operation called with S <= 0, or K <= 0, or T < 0, or
\* sigma <= 0 while T > 0, fails with InvalidInput and returns no number.
C2_InvalidInputRejected ==
    \A k \in Kinds :
        /\ (single[k].done /\ ~ValidTerms) =>
              single[k].status = "InvalidInput"
        /\ (all[k].done /\ ~ValidTerms) => all[k].status = "InvalidInput"

\* C3: put-call parity.  For valid terms, call price - put price equals
\* S e^(-qT) - K e^(-rT) within the floating tolerance (here four units of
\* 1/Unit, the rounding of the products of the two prices), and at T = 0 it
\* is S - K.
C3_PutCallParity ==
    LET forward == Mul[terms.S, Exp[Mul[-terms.q, terms.T]]]
                     - Mul[terms.K, Exp[Mul[-terms.r, terms.T]]]
    IN  (single["call"].done /\ single["put"].done /\ ValidTerms) =>
        /\ Abs(single["call"].price - single["put"].price - forward) <= 4
        /\ terms.T = 0 =>
              single["call"].price - single["put"].price = terms.S - terms.K

C3_Witness ==
    /\ single["call"].done /\ single["put"].done /\ ValidTerms
    /\ terms.T > 0 /\ terms.q # 0
    /\ single["call"].price > 0 /\ single["put"].price > 0

\* C4: for valid terms, T = 0 and S = K included, probITM of the call plus
\* probITM of the put is 1.
C4_ProbabilitiesSumToOne ==
    (single["call"].done /\ single["put"].done /\ ValidTerms) =>
        single["call"].probITM + single["put"].probITM = Unit

\* C5 as claimed: for valid terms and any dividend yield q, the delta of a
\* call lies in [0, 1] and the delta of a put in [-1, 0].
C5_DeltaBoundedAnyYield ==
    ValidTerms =>
        /\ single["call"].done =>
              single["call"].delta >= 0 /\ single["call"].delta <= Unit
        /\ single["put"].done =>
              single["put"].delta >= -Unit /\ single["put"].delta <= 0

\* C5 as amended: for valid terms with a dividend yield q >= 0, the delta
\* of a call lies in [0, 1] and the delta of a put in [-1, 0].
C5_DeltaBounded ==
    (ValidTerms /\ terms.q >= 0) =>
        /\ single["call"].done =>
              single["call"].delta >= 0 /\ single["call"].delta <= Unit
        /\ single["put"].done =>
              single["put"].delta >= -Unit /\ single["put"].delta <= 0

C5_Witness ==
    /\ single["call"].done /\ single["put"].done /\ ValidTerms
    /\ terms.T > 0 /\ terms.q > 0
    /\ single["call"].delta > 0 /\ single["call"].delta < Unit
    /\ single["put"].delta < 0 /\ single["put"].delta > -Unit

\* C6: at T = 0 delta is 1 for a call with S > K and 0 otherwise, -1 for a
\* put with S < K and 0 otherwise; gamma, theta, vega and rho are 0; and
\* calculateAll returns the same values.
C6_GreeksAtExpiry ==
    \A k \in Kinds :
        LET d == IF k = "call" THEN (IF terms.S > terms.K THEN Unit ELSE 0)
                 ELSE (IF terms.S < terms.K THEN -Unit ELSE 0)
            AtBoundary(g) ==
                /\ g.delta = d
                /\ g.gamma = 0 /\ g.theta = 0 /\ g.vega = 0 /\ g.rho = 0
        IN  terms.T = 0 =>
                /\ single[k].done => AtBoundary(single[k])
                /\ all[k].done => AtBoundary(all[k])

C6_Witness ==
    /\ terms.T = 0 /\ terms.S > terms.K
    /\ single["call"].done /\ all["call"].done
    /\ single["put"].done /\ all["put"].done
    /\ single["call"].delta = Unit /\ all["call"].delta = Unit
    /\ single["put"].delta = 0

\* C7: for valid terms gamma >= 0 and vega >= 0.
C7_GammaVegaNonNegative ==
    \A k \in Kinds :
        (single[k].done /\ ValidTerms) =>
            single[k].gamma >= 0 /\ single[k].vega >= 0

C7_Witness ==
    /\ single["call"].done /\ ValidTerms /\ terms.T > 0
    /\ single["call"].gamma > 0 /\ single["call"].vega > 0

\* C8: the six fields of the record calculateAll returns equal the results
\* of price, delta, gamma, theta, vega and rho called one by one with the
\* same arguments.
C8_CalculateAllAgrees ==
    \A k \in Kinds :
        (single[k].done /\ all[k].done) =>
            /\ all[k].price = single[k].price
            /\ all[k].delta = single[k].delta
            /\ all[k].gamma = single[k].gamma
            /\ all[k].theta = single[k].theta
            /\ all[k].vega = single[k].vega
            /\ all[k].rho = single[k].rho

C8_Witness ==
    /\ single["put"].done /\ all["put"].done /\ terms.T > 0
    /\ terms.S # terms.K
    /\ all["put"].price > 0 /\ all["put"].gamma > 0 /\ all["put"].theta # 0

(***************************************************************************)
(* Claims about the calculator (specification SpecCalculator)              *)
(***************************************************************************)
\* C9: every call of calculateYieldAnalysis with premium <= 0 leaves all
\* eight yield outputs blank ('--'); no numeric yield is displayed.
C9_NonPositivePremiumIsBlank ==
    (yieldCall.called /\ yieldCall.premium <= 0) =>
        \A id \in YieldOutputs : yieldShown[id] = Blank

\* C10: on every path that invokes the yield analysis the days argument it
\* receives is at least 1.
C10_DaysAtLeastOne ==
    yieldCall.called => yieldCall.days >= Unit

(***************************************************************************)
(* Claims about the yield analysis (specification SpecYield)               *)
(***************************************************************************)
\* C11 as stated: for premium > 0 and days >= 1 the analysis computes
\* periodYield = premium / S, annualizedYield = periodYield * (365 / days),
\* premiumPerDay = premium / days and monthlyYield = annualizedYield / 12,
\* and monthlyYield * 12 equals annualizedYield and annualizedYield * days
\* equals periodYield * 365 exactly, for all inputs.
C11_ExactIdentities ==
    \A c \in {<<yieldCall, yieldValues>>, <<finderCall, finderValues>>} :
        (c[1].called /\ c[2].computed /\ c[1].premium > 0 /\ c[1].days >= Unit) =>
            /\ c[2].monthlyYield * 12 = c[2].annualizedYield
            /\ Mul[c[2].annualizedYield, c[1].days] =
                  Mul[c[2].periodYield, 365 * Unit]

\* C11: for premium > 0 and days >= 1 the analysis computes
\* periodYield = premium / S, annualizedYield = periodYield * (365 / days),
\* premiumPerDay = premium / days and monthlyYield = annualizedYield / 12;
\* monthlyYield * 12 equals annualizedYield, and annualizedYield * days
\* equals periodYield * 365, up to the rounding of the divisions: half a
\* unit of the last place for each of the twelve months, and one unit for
\* each day.
C11_YieldFormulas ==
    \A c \in {<<yieldCall, yieldValues>>, <<finderCall, finderValues>>} :
        (c[1].called /\ c[2].computed /\ c[1].premium > 0 /\ c[1].days >= Unit) =>
            /\ c[2].periodYield = Div[c[1].premium, c[1].S]
            /\ c[2].annualizedYield =
                  Mul[Div[c[1].premium, c[1].S], Div[365 * Unit, c[1].days]]
            /\ c[2].premiumPerDay = Div[c[1].premium, c[1].days]
            /\ c[2].monthlyYield = DivInt[c[2].annualizedYield, 12]
            /\ Abs(c[2].monthlyYield * 12 - c[2].annualizedYield) <= 6
            /\ Abs(Mul[c[2].annualizedYield, c[1].days]
                     - Mul[c[2].periodYield, 365 * Unit])
                  <= c[1].days \div Unit + 1

C11_Witness ==
    /\ yieldCall.called /\ yieldValues.computed
    /\ yieldCall.premium > 0 /\ yieldCall.days = 30 * Unit
    /\ yieldValues.monthlyYield * 12 # yieldValues.annualizedYield
    /\ finderCall.called /\ finderValues.computed
    /\ finderCall.days = Unit /\ finderValues.annualizedYield > 0

\* C12: for a call capitalRequired = S * 100, assignedReturn =
\* (premium + (K - S)) / S and effectivePrice = K + premium; for a put
\* capitalRequired = K * 100, assignedReturn = premium / K and
\* effectivePrice = K - premium; for both assignedAnnualizedReturn =
\* assignedReturn * (365 / days).
C12_AssignmentFormulas ==
    \A c \in {<<yieldCall, yieldValues>>, <<finderCall, finderValues>>} :
        (c[1].called /\ c[2].computed) =>
            /\ c[1].type = "call" =>
                  /\ c[2].capitalRequired = Mul[c[1].S, 100 * Unit]
                  /\ c[2].assignedReturn =
                        Div[c[1].premium + (c[1].K - c[1].S), c[1].S]
                  /\ c[2].effectivePrice = c[1].K + c[1].premium
            /\ c[1].type = "put" =>
                  /\ c[2].capitalRequired = Mul[c[1].K, 100 * Unit]
                  /\ c[2].assignedReturn = Div[c[1].premium, c[1].K]
                  /\ c[2].effectivePrice = c[1].K - c[1].premium
            /\ c[2].assignedAnnualized =
                  Mul[c[2].assignedReturn, Div[365 * Unit, c[1].days]]

C12_Witness ==
    /\ yieldCall.called /\ yieldValues.computed /\ yieldCall.type = "put"
    /\ yieldCall.K < yieldCall.S /\ yieldCall.premium > 0
    /\ yieldValues.capitalRequired = 9500 * Unit
    /\ finderCall.called /\ finderValues.computed /\ finderCall.type = "call"
    /\ finderValues.capitalRequired = 10000 * Unit

\* C13: the class of a yield value is 'negative' below 0, 'excellent' from
\* 0.30, 'good' from 0.15 to below 0.30, 'moderate' from 0.08 to below
\* 0.15 and 'low' otherwise; after applyYieldColor the element carries
\* exactly one of the five classes, that one, whatever it carried before.
C13_ExactlyOneClass ==
    \A c \in {<<yieldValues, yieldClass>>, <<finderValues, finderClass>>} :
        c[1].computed =>
            \A id \in ColouredOutputs :
                LET v == CASE id = "annualized-yield" -> c[1].annualizedYield
                           [] id = "period-yield" -> c[1].periodYield
                           [] id = "monthly-yield" -> c[1].monthlyYield
                           [] id = "assigned-annualized" -> c[1].assignedAnnualized
                IN  /\ Cardinality(c[2][id] \cap YieldClasses) = 1
                    /\ "negative" \in c[2][id] <=> v < 0
                    /\ "excellent" \in c[2][id] <=> v >= 3000
                    /\ "good" \in c[2][id] <=> (1500 <= v /\ v < 3000)
                    /\ "moderate" \in c[2][id] <=> (800 <= v /\ v < 1500)
                    /\ "low" \in c[2][id] <=> (0 <= v /\ v < 800)

C13_Witness ==
    /\ yieldValues.computed
    /\ yieldClass["annualized-yield"] = {"moderate"}
    /\ yieldClass["assigned-annualized"] = {"negative"}
    /\ yieldClass["period-yield"] = {"low"}
    /\ finderValues.computed
    /\ finderClass["annualized-yield"] = {"excellent"}
    /\ finderClass["monthly-yield"] = {"good"}

(***************************************************************************)
(* Claims about the P/L chart (specification SpecChart)                    *)
(***************************************************************************)
\* C14 as stated: for every S > 0 calculatePLData produces a non-empty
\* at-expiration sequence with the same number of samples for every S,
\* whose prices are strictly increasing, start at max(0.01, 0.5 * S) and
\* never exceed 1.5 * S.
C14_SampleGrid ==
    /\ []((chartCall.called /\ chartCall.S > 0) =>
            /\ Len(data.expiryData) > 0
            /\ \A i \in 1..(Len(data.expiryData) - 1) :
                  data.expiryData[i].price < data.expiryData[i + 1].price
            /\ data.expiryData[1].price =
                  (IF Mul[chartCall.S, Unit \div 2] > Unit \div 100
                   THEN Mul[chartCall.S, Unit \div 2] ELSE Unit \div 100)
            /\ \A i \in DOMAIN data.expiryData :
                  data.expiryData[i].price <= Mul[chartCall.S, (3 * Unit) \div 2])
    /\ [][(chartCall.called /\ chartCall'.called
             /\ chartCall.S > 0 /\ chartCall'.S > 0) =>
            Len(data'.expiryData) = Len(data.expiryData)]_vars

\* C15: each at-expiration sample has pl = (intrinsicValue(kind, price, K)
\* - premium) * sign * 100 * contracts with sign +1 for long and -1 for
\* short, so that the short curve is the pointwise negation of the long
\* curve of the same arguments.
C15_ExpiryPL ==
    chartCall.called =>
        LET sign == IF chartCall.position = "long" THEN 1 ELSE -1
            other == calculatePLData(chartCall.type, chartCall.S, chartCall.K,
                        0, chartCall.r, chartCall.sigma, chartCall.q,
                        chartCall.premium, chartCall.contracts,
                        IF chartCall.position = "long" THEN "short" ELSE "long")
        IN  /\ \A i \in DOMAIN data.expiryData :
                  data.expiryData[i].pl =
                     (intrinsicValue(chartCall.type, data.expiryData[i].price,
                                     chartCall.K) - chartCall.premium)
                       * sign * 100 * chartCall.contracts
            /\ Len(other.expiryData) = Len(data.expiryData)
            /\ \A i \in DOMAIN data.expiryData :
                  /\ other.expiryData[i].price = data.expiryData[i].price
                  /\ other.expiryData[i].pl = -data.expiryData[i].pl

C15_Witness ==
    /\ chartCall.called /\ chartCall.position = "short"
    /\ chartCall.type = "put" /\ chartCall.premium > 0
    /\ chartCall.contracts = 2
    /\ \E i \in DOMAIN data.expiryData : data.expiryData[i].pl > 0
    /\ \E i \in DOMAIN data.expiryData : data.expiryData[i].pl < 0

\* C16: currentData is emitted if and only if T > 0; when emitted it has
\* the length of expiryData and the same price at every index, and each pl
\* is (BlackScholes.price(kind, price, K, T, r, sigma, q) - premium) * sign
\* * 100 * contracts; when T <= 0 it is empty.
C16_CurrentData ==
    chartCall.called =>
        /\ (Len(data.currentData) > 0) <=> (chartCall.T > 0)
        /\ chartCall.T <= 0 => data.currentData = <<>>
        /\ chartCall.T > 0 =>
              /\ Len(data.currentData) = Len(data.expiryData)
              /\ \A i \in DOMAIN data.currentData :
                    /\ data.currentData[i].price = data.expiryData[i].price
                    /\ data.currentData[i].pl =
                          (price(chartCall.type, data.currentData[i].price,
                                 chartCall.K, chartCall.T, chartCall.r,
                                 chartCall.sigma, chartCall.q)
                             - chartCall.premium)
                            * (IF chartCall.position = "long" THEN 1 ELSE -1)
                            * 100 * chartCall.contracts

C16_Witness ==
    /\ chartCall.called /\ chartCall.T > 0 /\ chartCall.position = "short"
    /\ Len(data.currentData) = 201
    /\ data.currentData[1].pl # data.expiryData[1].pl
    /\ data.currentData[101].pl < data.expiryData[101].pl

\* C17: the breakeven returned with the curve is K + premium for a call and
\* K - premium for a put, whatever the position, and is what
\* BlackScholes.breakeven returns.
C17_Breakeven ==
    chartCall.called =>
        /\ chartCall.type = "call" =>
              data.breakeven = chartCall.K + chartCall.premium
        /\ chartCall.type = "put" =>
              data.breakeven = chartCall.K - chartCall.premium
        /\ data.breakeven =
              breakeven(chartCall.type, chartCall.K, chartCall.premium)

C17_Witness ==
    /\ chartCall.called /\ chartCall.position = "short"
    /\ chartCall.type = "put" /\ chartCall.premium = 24900
    /\ data.breakeven = 975100

\* C18: scaled by 100 * contracts, maxProfit and maxLoss are: long call
\* (Infinity, premium); short call (premium, Infinity); long put
\* (K - premium, premium); short put (premium, K - premium).  Infinity is
\* kept apart from the numbers and shown as 'Unlimited'.  A short put of
\* strike 100, premium 2.49 and 1 contract has maxProfit 249 and maxLoss
\* 9751.
C18_MaxProfitLoss ==
    chartCall.called =>
        LET scale == 100 * chartCall.contracts
            prem == [inf |-> FALSE, v |-> chartCall.premium * scale]
            rest == [inf |-> FALSE,
                     v |-> (chartCall.K - chartCall.premium) * scale]
            unbounded == [inf |-> TRUE, v |-> 0]
            kp == <<chartCall.type, chartCall.position>>
        IN  /\ kp = <<"call", "long">> =>
                  data.maxProfit = unbounded /\ data.maxLoss = prem
            /\ kp = <<"call", "short">> =>
                  data.maxProfit = prem /\ data.maxLoss = unbounded
            /\ kp = <<"put", "long">> =>
                  data.maxProfit = rest /\ data.maxLoss = prem
            /\ kp = <<"put", "short">> =>
                  data.maxProfit = prem /\ data.maxLoss = rest
            /\ data.maxProfit.inf <=> stats["max-profit"].t = "Unlimited"
            /\ data.maxLoss.inf <=> stats["max-loss"].t = "Unlimited"
            /\ (kp = <<"put", "short">> /\ chartCall.K = 100 * Unit
                  /\ chartCall.premium = 24900 /\ chartCall.contracts = 1) =>
                  /\ data.maxProfit.v = 249 * Unit
                  /\ data.maxLoss.v = 9751 * Unit

C18_Witness ==
    /\ chartCall.called
    /\ chartCall.type = "put" /\ chartCall.position = "short"
    /\ chartCall.K = 100 * Unit /\ chartCall.premium = 24900
    /\ chartCall.contracts = 1
    /\ data.maxProfit = [inf |-> FALSE, v |-> 249 * Unit]
    /\ data.maxLoss = [inf |-> FALSE, v |-> 9751 * Unit]
    /\ stats["max-profit"] = [t |-> "+$", v |-> 24900]
    /\ stats["max-loss"] = [t |-> "-$", v |-> 975100]

\* C19 as stated: for every kind, position, K > 0, premium >= 0 and
\* contracts >= 1 the at-expiration P/L formula is 0 at price = breakeven,
\* and the sampled P/L has opposite signs on the two sides of breakeven
\* whenever breakeven lies inside the sampled range.
C19_CrossesAtBreakevenAnyPremium ==
    (chartCall.called /\ chartCall.K > 0 /\ chartCall.premium >= 0
       /\ chartCall.contracts >= 1) =>
        /\ (intrinsicValue(chartCall.type, data.breakeven, chartCall.K)
              - chartCall.premium)
             * (IF chartCall.position = "long" THEN 1 ELSE -1)
             * 100 * chartCall.contracts = 0
        /\ (Len(data.expiryData) > 0
              /\ data.expiryData[1].price <= data.breakeven
              /\ data.breakeven <= data.expiryData[Len(data.expiryData)].price) =>
              \A i, j \in DOMAIN data.expiryData :
                  (data.expiryData[i].price < data.breakeven
                     /\ data.breakeven < data.expiryData[j].price) =>
                      /\ Sgn(data.expiryData[i].pl) # 0
                      /\ Sgn(data.expiryData[i].pl) = -Sgn(data.expiryData[j].pl)

\* C19: for every kind, position, K > 0, premium > 0 and contracts >= 1 the
\* at-expiration P/L formula is 0 at price = breakeven, and the sampled P/L
\* has opposite signs on the two sides of breakeven whenever breakeven lies
\* inside the sampled range.  (With premium = 0 the P/L is 0 on the whole
\* out-of-the-money side.)
C19_CrossesAtBreakeven ==
    (chartCall.called /\ chartCall.K > 0 /\ chartCall.premium > 0
       /\ chartCall.contracts >= 1) =>
        /\ (intrinsicValue(chartCall.type, data.breakeven, chartCall.K)
              - chartCall.premium)
             * (IF chartCall.position = "long" THEN 1 ELSE -1)
             * 100 * chartCall.contracts = 0
        /\ (Len(data.expiryData) > 0
              /\ data.expiryData[1].price <= data.breakeven
              /\ data.breakeven <= data.expiryData[Len(data.expiryData)].price) =>
              \A i, j \in DOMAIN data.expiryData :
                  (data.expiryData[i].price < data.breakeven
                     /\ data.breakeven < data.expiryData[j].price) =>
                      /\ Sgn(data.expiryData[i].pl) # 0
                      /\ Sgn(data.expiryData[i].pl) = -Sgn(data.expiryData[j].pl)

C19_Witness ==
    /\ chartCall.called /\ chartCall.premium > 0 /\ chartCall.type = "call"
    /\ chartCall.position = "long"
    /\ Len(data.expiryData) > 0
    /\ data.expiryData[1].price < data.breakeven
    /\ data.breakeven < data.expiryData[Len(data.expiryData)].price
    /\ data.expiryData[1].pl < 0
    /\ data.expiryData[Len(data.expiryData)].pl > 0

(***************************************************************************)
(* Claim about the state of the components (specification SpecYield)       *)
(***************************************************************************)
\* C20 as stated: the engine, the yield analysis and the chart are
\* stateless: a call of calculateYieldAnalysis (as of any BlackScholes
\* function or of PLChart.update) leaves every module-level and object-level
\* variable unchanged.
C20_NoVariableWritten ==
    [][UNCHANGED <<currentMidPrice, currentStrike, position, data>>]_vars

(***************************************************************************)
(* Claim about the calculator and its chart (SpecCalculatorChart)          *)
(***************************************************************************)
\* C29 as stated: on any sequence of calculateOption, setPosition and
\* updateChart, PLChart.update is invoked only with inputs that pass
\* calculateOption's validation (S > 0, K > 0, days > 0, sigma > 0); and
\* calculateOption with an invalid input alerts and changes no displayed
\* result and no chart data.
C29_ChartInputsValidated ==
    /\ [](chartCall.called =>
            (chartCall.S > 0 /\ chartCall.K > 0 /\ chartCall.T > 0
               /\ chartCall.sigma > 0))
    /\ [][(position' = position /\ chartCall' = chartCall
             /\ InvalidInputs(fields.S, fields.K, fields.days, Percent(fields.vol))
             /\ calcType' = calcType) =>
            (alerted' /\ shown' = shown /\ yieldShown' = yieldShown
               /\ data' = data /\ stats' = stats)]_vars

(***************************************************************************)
(* Claims about the ticker input and fetchMarketData (SpecTicker)          *)
(***************************************************************************)
\* C21: at most one debounce timer is pending; a timer-driven fetchMarketData
\* runs only with the value of the most recent input event and only 500 ms
\* (DebounceTicks) after it, with no later input in between; an input whose
\* trimmed length is 0 or above 5 leaves no timer pending; and after Enter no
\* timer is pending, so none fires after the Enter-triggered fetch.
C21_Debounce ==
    /\ Cardinality(timers) <= 1
    /\ lastFired.any =>
          /\ lastFired.ticker = lastFired.latest
          /\ lastFired.age >= DebounceTicks
          /\ ~lastFired.entered
    /\ ~(Len(trimUpper[tickerInput]) >= 1 /\ Len(trimUpper[tickerInput]) <= 5) =>
          timers = {}
    /\ entered => timers = {}

\* A fetch for A ran from the timer; then " b " was typed and Enter pressed
\* before the new timer was due, which cancelled it.
C21_Witness ==
    /\ lastFired.any
    /\ lastFired.ticker = "A"
    /\ trimUpper[tickerInput] = "B"
    /\ sinceInput < DebounceTicks
    /\ entered
    /\ timers = {}
    /\ currentTicker = "B"

\* C22 as stated: once the fetchMarketData calls have all completed with
\* success, the stock price held and displayed and the expiration list are
\* those of the ticker in currentTicker.
C22_LatestTickerData ==
    (/\ inflight = <<>>
     /\ Len(fetchLog) >= 2
     /\ \A i \in DOMAIN fetchLog : fetchLog[i].ok) =>
       /\ currentStockPrice = StockPriceOf[currentTicker]
       /\ stockShown.name = currentTicker
       /\ expirationDates = ExpirationsOf[currentTicker]

(***************************************************************************)
(* Claims about the selection and the option quote request (SpecSelect)    *)
(***************************************************************************)
\* C23 as stated: the option symbol fetchOptionQuote builds combines
\* currentTicker only with an expiration and a strike of the lists loaded for
\* that same ticker.
C23_SymbolOfOneTicker ==
    optionSymbol.built =>
       /\ optionSymbol.ticker \in Tickers
       /\ optionSymbol.expiration \in Range(ExpirationsOf[optionSymbol.ticker])
       /\ optionSymbol.strike \in Range(StrikesOf[optionSymbol.ticker])

\* The selection fetchOptionQuote refuses.
NothingSelected ==
    currentTicker = "" \/ currentExpiration = "" \/ Falsy(currentStrike)

\* C24: with an empty currentTicker or currentExpiration, or currentStrike 0
\* or NaN, no step builds an option symbol or starts an option-quote request,
\* and the step in which fetchOptionQuote alerts changes neither the status
\* line, the quote display, the yield display, the chart data nor any state
\* variable of the application.
C24_RefusedWithoutEffect ==
    /\ [][NothingSelected =>
            /\ optionSymbol'.built => optionSymbol' = optionSymbol
            /\ \A i \in DOMAIN inflight' :
                  inflight'[i].fn = "fetchOptionQuote" =>
                     \E j \in DOMAIN inflight : inflight[j] = inflight'[i]]_vars
    /\ [][(NothingSelected /\ finderAlerted' /\ ~finderAlerted) =>
            /\ UNCHANGED <<inflight, fetchStatus, quoteShown, stockShown>>
            /\ UNCHANGED <<finderShown, finderClass, finderValues, data, stats>>
            /\ UNCHANGED <<currentOptionType, currentTicker, currentStockPrice,
                           currentExpiration, currentStrike,
                           currentDaysToMaturity, expirationDates, strikePrices,
                           currentMidPrice, tickerDebounceTimer>>]_vars

\* fetchOptionQuote alerted with ticker and expiration chosen and the strike
\* selection cleared.
C24_Witness ==
    /\ finderAlerted
    /\ currentTicker = "A"
    /\ currentExpiration = "e1"
    /\ currentStrike = NaNValue

\* C27: fetchStrikes never propagates an error; on a failed request, a status
\* that is not ok or a missing or empty list it leaves strikePrices,
\* currentStrike and the strike dropdown as they were; on success strikePrices
\* is sorted ascending and currentStrike is a member of it that minimises
\* |strike - currentStockPrice|, the lowest one on a tie.  (strikesDone.turn
\* flips in the step in which a fetchStrikes call ends.)
C27_StrikesLoaded ==
    [][strikesDone'.turn # strikesDone.turn =>
         /\ ~strikesDone'.thrown
         /\ ~strikesDone'.loaded =>
               UNCHANGED <<strikePrices, currentStrike, strikeSelect>>
         /\ strikesDone'.loaded =>
               /\ IsSorted(strikePrices')
               /\ strikePrices' # <<>>
               /\ strikeSelect'.options = strikePrices'
               /\ currentStrike' \in Range(strikePrices')
               /\ \A k \in Range(strikePrices') :
                     /\ Abs(currentStrike' - currentStockPrice)
                           <= Abs(k - currentStockPrice)
                     /\ Abs(k - currentStockPrice)
                           = Abs(currentStrike' - currentStockPrice)
                        => currentStrike' <= k]_vars

\* The strikes 105, 95, 110 were loaded at a stock price of 100: 95 and 105
\* are equally near, and 95 is chosen.
C27_Witness ==
    /\ strikesDone.called
    /\ strikesDone.loaded
    /\ currentStockPrice = 100 * Unit
    /\ strikePrices = <<95 * Unit, 105 * Unit, 110 * Unit>>
    /\ currentStrike = 95 * Unit

(***************************************************************************)
(* Claims about the option quote and the order text (SpecQuote)            *)
(***************************************************************************)
\* C26 as stated: whenever fetchOptionFromChain returns without error, the
\* bid, ask and iv it returns are those of a chain entry whose strike is
\* within 0.01 of currentStrike: never those of another strike or of no entry.
C26_ChainEntryOfStrike ==
    (lastQuote.returned /\ lastQuote.from = "chain") =>
       /\ lastQuote.defined
       /\ Abs(lastQuote.strike - lastQuote.want) < Unit \div 100

\* The premium of the last calculateYieldAnalysis call, 0 when it was not
\* positive or when there was no call.
PremiumInForce ==
    IF finderCall.called /\ finderCall.premium > 0 THEN finderCall.premium ELSE 0

\* parseInt(yield-contracts) || 1
ContractsEntered ==
    IF yieldContracts.nan \/ yieldContracts.v = 0 THEN 1 ELSE yieldContracts.v

\* C28: once calculateYieldAnalysis was called, currentMidPrice is the
\* premium of its last call when that was positive and 0 when not; in the
\* first case the projected premium shown is contracts * 100 *
\* currentMidPrice and the notional currentStrike * contracts * 100, in the
\* second both read '--'; and the total premium of every order text copied is
\* contracts * 100 * the premium of the last call before it (0 if none), not
\* that of an earlier quote.
C28_PremiumOfLastCall ==
    /\ [](finderCall.called =>
            /\ currentMidPrice = PremiumInForce
            /\ IF finderCall.premium > 0
                  THEN /\ finderShown["projected-premium"] =
                             formatCurrency(ContractsEntered * 100 * currentMidPrice)
                       /\ finderShown["total-notional"] =
                             formatCurrency(currentStrike * ContractsEntered * 100)
                  ELSE /\ finderShown["projected-premium"] = Blank
                       /\ finderShown["total-notional"] = Blank)
    /\ [][clipboard' # clipboard =>
            clipboard'.totalPremium =
               formatCurrency(ContractsEntered * 100 * PremiumInForce)]_vars

\* An order was copied at a premium of 2.50 for two contracts (500.00); a
\* later quote came at 7.50, which the projected premium shows.
C28_Witness ==
    /\ clipboard.written
    /\ clipboard.totalPremium = [t |-> "$", v |-> 50000]
    /\ finderCall.called
    /\ finderCall.premium = 75000
    /\ currentMidPrice = 75000
    /\ finderShown["projected-premium"] = [t |-> "$", v |-> 150000]

(***************************************************************************)
(* Claim about fetchMarketData of the calculator (SpecFetch)               *)
(***************************************************************************)
\* C25: whenever fetchMarketData has disabled the fetch button (label
\* 'Loading...'), the button is eventually enabled again with the label
\* 'Fetch Data': every call that ends (quote success, quote failure,
\* options-chain failure) leaves it so; a failure of the options chain alone
\* ends with the success status and the volatility 25, a failure of the quote
\* with the error status; and with an empty ticker no step disables the
\* button.  (calcOutcome.turn flips in the step in which a call ends.)
C25_ButtonReenabled ==
    /\ [](fetchBtn.disabled => fetchBtn = ButtonLoading)
    /\ (fetchBtn.disabled ~> fetchBtn = ButtonReady)
    /\ [][calcOutcome'.turn # calcOutcome.turn =>
            /\ fetchBtn' = ButtonReady
            /\ (calcOutcome'.quote /\ ~calcOutcome'.chain) =>
                  /\ calcStatus'.class = "status-message success"
                  /\ fields'.vol = Num(25 * Unit)
            /\ calcOutcome'.quote => calcStatus'.class = "status-message success"
            /\ ~calcOutcome'.quote => calcStatus'.class = "status-message error"]_vars
    /\ [][trimUpper[calcTicker] = "" =>
            (fetchBtn'.disabled => fetchBtn.disabled)]_vars

\* A call for A ended with the quote loaded and the options chain failed.
C25_Witness ==
    /\ calcOutcome.done
    /\ calcOutcome.quote
    /\ ~calcOutcome.chain
    /\ fetchBtn = ButtonReady
    /\ fields.S = Num(100 * Unit)
    /\ fields.vol = Num(25 * Unit)
    /\ calcStatus = StatusLoaded("A")

(***************************************************************************)
(* Claim about the bounds of the chart in doubles (SpecRounding)           *)
(***************************************************************************)
\* C30 as stated: every at-expiration sample satisfies pl <= maxProfit and
\* pl >= -maxLoss, an infinite bound being no bound.
C30_WithinBounds ==
    ieee.computed =>
       /\ ~ieee.maxProfit.inf => SignedLeq(ieee.pl, ieee.maxProfit.v)
       /\ ~ieee.maxLoss.inf => SignedLeq(Negate(ieee.maxLoss.v), ieee.pl)

\* C30, amended: every at-expiration sample satisfies pl <= maxProfit and
\* pl >= -maxLoss up to one unit in the last place of the bound: pl is
\* rounded once, as x * (100 * contracts), and the bound twice, as
\* (x * 100) * contracts.
C30_WithinBoundsRounded ==
    ieee.computed =>
       /\ ~ieee.maxProfit.inf =>
             ~BigLess(Ulp(ieee.maxProfit.v.mag),
                      Excess(ieee.pl, ieee.maxProfit.v))
       /\ ~ieee.maxLoss.inf =>
             ~BigLess(Ulp(ieee.maxLoss.v.mag),
                      Excess(Negate(ieee.maxLoss.v), ieee.pl))

\* Three long calls bought at 0.17 and expiring at the strike: pl is
\* -51.00000000000001 and maxLoss 51, one unit in the last place apart.
C30_Witness ==
    /\ ieee.computed
    /\ ieee.type = "call"
    /\ ieee.position = "long"
    /\ ieee.premium = <<30147, 14417, 2621, 174, 0, 0>>
    /\ ieee.contracts = 3
    /\ ieee.price = DoubleStrike
    /\ Excess(Negate(ieee.maxLoss.v), ieee.pl) = Ulp(ieee.maxLoss.v.mag)

==========================================================================
